---------------------------- MODULE Spec2Model ----------------------------
(***************************************************************************)
(* A model of the JCE/Tars wire codec of src/jce/decoder.py: the           *)
(* DataReader byte cursor, the tag/type header, the GenericDecoder and the *)
(* SchemaDecoder, with the encoder as the wire format describes it.        *)
(*                                                                         *)
(* A byte is an integer 0..255, a buffer a sequence of bytes.  A cursor    *)
(* position is the number of bytes consumed, as DataReader._pos is.        *)
(* Every reader returns a record [st, pos, val]: st is "ok" or the kind of *)
(* exception the code raises, pos the cursor position when the call ends   *)
(* (returning or raising), val the returned value.                         *)
(***************************************************************************)
EXTENDS Integers, Sequences, FiniteSets, TLC

VARIABLES
    buf,            \* DataReader._view: the bytes being read
    pos,            \* DataReader._pos
    little_endian,  \* DataReader._little_endian
    last,           \* the last call made on the cursor and how it ended
    pc,             \* where the caller is: "start", "written", "done"
    inp             \* the input the buffer was made from

vars == <<buf, pos, little_endian, last, pc, inp>>

(***************************************************************************)
(* Bounds of the model.                                                    *)
(***************************************************************************)
MaxBufLen == 9
MaxReq == 3
MaxNest == 102
MaxTrail == 2
MaxTag == 300
MaxStepsLog == 11
MaxStack == 6

(***************************************************************************)
(* Error kinds: JcePartialDataError, JceDecodeError, RecursionError.       *)
(***************************************************************************)
PartialData == "PartialData"
MalformedData == "MalformedData"
RecursionLimitExceeded == "RecursionLimitExceeded"

\* loc is JceDecodeError.loc, the path of field names of a failure.
Ok(p, v) == [st |-> "ok", pos |-> p, val |-> v, loc |-> <<>>]
Fail(e, p) == [st |-> e, pos |-> p, val |-> <<>>, loc |-> <<>>]

(***************************************************************************)
(* Wire type ids.                                                          *)
(***************************************************************************)
JCE_INT1 == 0
JCE_INT2 == 1
JCE_INT4 == 2
JCE_INT8 == 3
JCE_FLOAT == 4
JCE_DOUBLE == 5
JCE_STRING1 == 6
JCE_STRING4 == 7
JCE_MAP == 8
JCE_LIST == 9
JCE_STRUCT_BEGIN == 10
JCE_STRUCT_END == 11
JCE_ZERO_TAG == 12
JCE_SIMPLE_LIST == 13

MAX_STRING_LENGTH == 100 * 1024 * 1024
MAX_CONTAINER_SIZE == 10000000
RECURSION_LIMIT == 100

(***************************************************************************)
(* Bytes and the numbers packed in them.                                   *)
(***************************************************************************)
Rev(s) == [i \in 1..Len(s) |-> s[Len(s) + 1 - i]]

Slice(b, from, n) == SubSeq(b, from + 1, from + n)

\* struct ">h" / ">i": a big-endian two's-complement integer of 2 or 4 bytes.
Signed(bs) ==
    LET hi == IF bs[1] >= 128 THEN bs[1] - 256 ELSE bs[1]
    IN  IF Len(bs) = 1 THEN hi
        ELSE IF Len(bs) = 2 THEN hi * 256 + bs[2]
        ELSE ((hi * 256 + bs[2]) * 256 + bs[3]) * 256 + bs[4]

\* The byte order struct's packer reads in: "<" packers read the bytes reversed.
Ordered(bs, le) == IF le THEN Rev(bs) ELSE bs

\* A float32 given by its 4 bytes, sign byte first.
Exp32(f) == (f[1] % 128) * 2 + (f[2] \div 128)
Mag32(f) == (((f[1] % 128) * 256 + f[2]) * 256 + f[3]) * 256 + f[4]
INF32 == 2139095040
IsFinite32(f) == Exp32(f) # 255
IsNaN32(f) == Mag32(f) > INF32
F32_1E9 == 1315859240
F32_1E6 == 1232348160
AbsGt32(f, t) == ~IsNaN32(f) /\ Mag32(f) > t
AbsLe32(f, t) == ~IsNaN32(f) /\ Mag32(f) <= t

\* A float64 given by its 8 bytes, sign byte first; magnitudes compare as
\* the bytes without the sign bit do, most significant first.
Mag64(d) == <<d[1] % 128>> \o SubSeq(d, 2, 8)
RECURSIVE LexLt(_, _)
LexLt(a, b) ==
    IF a = <<>> \/ b = <<>> THEN FALSE
    ELSE IF Head(a) # Head(b) THEN Head(a) < Head(b)
    ELSE LexLt(Tail(a), Tail(b))
INF64 == <<127, 240, 0, 0, 0, 0, 0, 0>>
IsFinite64(d) == LexLt(Mag64(d), INF64)
IsNaN64(d) == LexLt(INF64, Mag64(d))
F64_1E18 == <<67, 171, 193, 109, 103, 78, 200, 0>>
F64_1E12 == <<66, 109, 26, 148, 162, 0, 0, 0>>
F64_1EM30 == <<57, 180, 72, 75, 254, 235, 194, 160>>
F64_1E6 == <<65, 46, 132, 128, 0, 0, 0, 0>>
AbsGt64(d, t) == ~IsNaN64(d) /\ LexLt(t, Mag64(d))
AbsLt64(d, t) == ~IsNaN64(d) /\ LexLt(Mag64(d), t)
AbsLe64(d, t) == ~IsNaN64(d) /\ ~LexLt(t, Mag64(d))

(***************************************************************************)
(* DataReader: each operation takes the buffer and the position and gives  *)
(* the result and the position after the call.                             *)
(***************************************************************************)
\* read_bytes without its check of a negative length.
read_bytes_unsigned(b, p, length) ==
    IF p + length > Len(b) THEN Fail(PartialData, p)
    ELSE Ok(p + length, Slice(b, p, length))

read_bytes(b, p, length) ==
    IF length < 0 THEN Fail(MalformedData, p)
    ELSE IF p + length > Len(b) THEN Fail(PartialData, p)
    ELSE Ok(p + length, Slice(b, p, length))

read_u8(b, p) ==
    IF p >= Len(b) THEN Fail(PartialData, p)
    ELSE Ok(p + 1, b[p + 1])

peek_u8(b, p) ==
    IF p >= Len(b) THEN Fail(PartialData, p)
    ELSE Ok(p, b[p + 1])

\* skip without its bounds check.
skip_unchecked(b, p, length) ==
    IF length < 0 THEN Fail(MalformedData, p) ELSE Ok(p + length, <<>>)

skip(b, p, length) ==
    IF length < 0 THEN Fail(MalformedData, p)
    ELSE IF p + length > Len(b) THEN Fail(PartialData, p)
    ELSE Ok(p + length, <<>>)

read_int1(b, p) ==
    IF p >= Len(b) THEN Fail(PartialData, p)
    ELSE Ok(p + 1, IF b[p + 1] <= 127 THEN b[p + 1] ELSE b[p + 1] - 256)

\* _unpack(packer, size): the size bytes at the cursor, in the packer's order.
unpack(b, p, le, size) ==
    IF p + size > Len(b) THEN Fail(PartialData, p)
    ELSE Ok(p + size, Ordered(Slice(b, p, size), le))

read_int2(b, p, le) ==
    LET r == unpack(b, p, le, 2)
    IN  IF r.st = "ok" THEN Ok(r.pos, Signed(r.val)) ELSE r

read_int4(b, p, le) ==
    LET r == unpack(b, p, le, 4)
    IN  IF r.st = "ok" THEN Ok(r.pos, Signed(r.val)) ELSE r

\* A 64-bit integer is kept as its 8 bytes, most significant first.
read_int8(b, p, le) == unpack(b, p, le, 8)

\* read_float with the recovery heuristic also in little-endian mode.
read_float_recovering(b, p, le) ==
    IF p + 4 > Len(b) THEN Fail(PartialData, p)
    ELSE LET bytes == Slice(b, p, 4)
             primary == Ordered(bytes, ~le)
             alt == Ordered(bytes, le)
         IN  IF ~IsFinite32(primary) /\ IsFinite32(alt) THEN Ok(p + 4, alt)
             ELSE IF IsFinite32(alt) /\ AbsGt32(primary, F32_1E9)
                     /\ AbsLe32(alt, F32_1E6) THEN Ok(p + 4, alt)
             ELSE Ok(p + 4, primary)

read_float(b, p, le) ==
    IF p + 4 > Len(b) THEN Fail(PartialData, p)
    ELSE LET bytes == Slice(b, p, 4)
             primary == bytes
             alt == Rev(bytes)
         IN  IF le THEN Ok(p + 4, alt)
             ELSE IF ~IsFinite32(primary) /\ IsFinite32(alt) THEN Ok(p + 4, alt)
             ELSE IF IsFinite32(alt) /\ AbsGt32(primary, F32_1E9)
                     /\ AbsLe32(alt, F32_1E6) THEN Ok(p + 4, alt)
             ELSE Ok(p + 4, primary)

\* read_double without the recovery of a big-endian value below 1e-30.
read_double_no_small(b, p, le) ==
    IF p + 8 > Len(b) THEN Fail(PartialData, p)
    ELSE LET bytes == Slice(b, p, 8)
             primary == bytes
             alt == Rev(bytes)
         IN  IF le THEN Ok(p + 8, alt)
             ELSE IF ~IsFinite64(primary) /\ IsFinite64(alt) THEN Ok(p + 8, alt)
             ELSE IF IsFinite64(alt) /\ AbsGt64(primary, F64_1E18)
                     /\ AbsLe64(alt, F64_1E12) THEN Ok(p + 8, alt)
             ELSE Ok(p + 8, primary)

read_double(b, p, le) ==
    IF p + 8 > Len(b) THEN Fail(PartialData, p)
    ELSE LET bytes == Slice(b, p, 8)
             primary == bytes
             alt == Rev(bytes)
         IN  IF le THEN Ok(p + 8, alt)
             ELSE IF ~IsFinite64(primary) /\ IsFinite64(alt) THEN Ok(p + 8, alt)
             ELSE IF IsFinite64(alt) /\ AbsGt64(primary, F64_1E18)
                     /\ AbsLe64(alt, F64_1E12) THEN Ok(p + 8, alt)
             ELSE IF IsFinite64(alt) /\ AbsLt64(primary, F64_1EM30)
                     /\ AbsLe64(alt, F64_1E6) THEN Ok(p + 8, alt)
             ELSE Ok(p + 8, primary)

eof(b, p) == p >= Len(b)

(***************************************************************************)
(* Decoded values.  A value is a record [k, v]: k its Python type, v its   *)
(* content as a sequence.                                                  *)
(*   "int"    <<n>>             an int within 32 bits                      *)
(*   "wide"   8 bytes           an int outside 32 bits, as read_int8 gives *)
(*   "f32"    4 bytes           a float read by read_float                 *)
(*   "f64"    8 bytes           a float read by read_double                *)
(*   "bytes"  bytes             bytes (strings are decoded to bytes)       *)
(*   "list"   values            a list                                     *)
(*   "map"    <<key, value>>s   a dict, in insertion order                 *)
(*   "struct" <<tag, value>>s   a JceDict, in insertion order              *)
(*   "tuple"  values            a frozen composite map key                 *)
(*   "none"   <<>>              None                                       *)
(***************************************************************************)
IntV(n) == [k |-> "int", v |-> <<n>>]
WideV(bs) == [k |-> "wide", v |-> bs]
F32V(bs) == [k |-> "f32", v |-> bs]
F64V(bs) == [k |-> "f64", v |-> bs]
BytesV(bs) == [k |-> "bytes", v |-> bs]
ListV(vs) == [k |-> "list", v |-> vs]
MapV(ps) == [k |-> "map", v |-> ps]
StructV(fs) == [k |-> "struct", v |-> fs]
TupleV(vs) == [k |-> "tuple", v |-> vs]
NoneV == [k |-> "none", v |-> <<>>]

\* The int that 8 bytes (most significant first) hold.
Int8V(bs) ==
    LET ext == IF bs[5] >= 128 THEN 255 ELSE 0
    IN  IF \A i \in 1..4 : bs[i] = ext THEN IntV(Signed(SubSeq(bs, 5, 8)))
        ELSE WideV(bs)

IsInt(x) == x.k \in {"int", "wide"}
IsNegative(x) == IF x.k = "int" THEN x.v[1] < 0 ELSE x.v[1] >= 128
\* x > n for an n within 32 bits: a wide int lies outside 32 bits.
Exceeds(x, n) == IF x.k = "int" THEN x.v[1] > n ELSE x.v[1] < 128

\* With(r, v): the result r with its value replaced.
With(r, v) == [r EXCEPT !.val = v]

\* result[tag] = value keeping the value the tag already has.
Put_first_wins(entries, key, value) ==
    IF \E n \in 1..Len(entries) : entries[n][1] = key THEN entries
    ELSE Append(entries, <<key, value>>)

(***************************************************************************)
(* dict semantics: result[key] = value replaces the value of an equal key  *)
(* and keeps its place, or appends a new entry.                            *)
(***************************************************************************)
RECURSIVE Put(_, _, _)
Put(entries, key, value) ==
    IF entries = <<>> THEN <<<<key, value>>>>
    ELSE IF Head(entries)[1] = key THEN <<<<Head(entries)[1], value>>>> \o Tail(entries)
    ELSE <<Head(entries)>> \o Put(Tail(entries), key, value)

(***************************************************************************)
(* GenericDecoder.                                                         *)
(***************************************************************************)
\* read_head without the tag byte of a tag of 15 or more.
read_head_nibble(b, p) ==
    LET r == read_u8(b, p)
    IN  IF r.st # "ok" THEN r ELSE Ok(r.pos, <<r.val \div 16, r.val % 16>>)

read_head(b, p) ==
    LET r == read_u8(b, p)
    IN  IF r.st # "ok" THEN r
        ELSE IF r.val \div 16 = 15
             THEN LET t == read_u8(b, r.pos)
                  IN  IF t.st # "ok" THEN t
                      ELSE Ok(t.pos, <<t.val, r.val % 16>>)
             ELSE Ok(r.pos, <<r.val \div 16, r.val % 16>>)

\* str(k) orders the items of a frozen dict; strings compare character by
\* character, here as sequences of character codes.  str is modelled for
\* the keys a decoded dict has in the inputs below: a tag or an integer in
\* decimal, None, and bytes in their b'...' form.
RECURSIVE Digits(_)
Digits(n) == IF n < 10 THEN <<48 + n>> ELSE Digits(n \div 10) \o <<48 + (n % 10)>>

HexDigit(d) == IF d < 10 THEN 48 + d ELSE 87 + d

ByteRepr(x) ==
    IF x = 92 THEN <<92, 92>>
    ELSE IF x = 39 THEN <<92, 39>>
    ELSE IF x = 9 THEN <<92, 116>>
    ELSE IF x = 10 THEN <<92, 110>>
    ELSE IF x = 13 THEN <<92, 114>>
    ELSE IF x >= 32 /\ x <= 126 THEN <<x>>
    ELSE <<92, 120, HexDigit(x \div 16), HexDigit(x % 16)>>

RECURSIVE BytesRepr(_)
BytesRepr(bs) == IF bs = <<>> THEN <<>> ELSE ByteRepr(Head(bs)) \o BytesRepr(Tail(bs))

Str(key) ==
    CASE key.k = "int" ->
            IF key.v[1] < 0 THEN <<45>> \o Digits(-key.v[1]) ELSE Digits(key.v[1])
      [] key.k = "none" -> <<78, 111, 110, 101>>
      [] key.k = "bytes" -> <<98, 39>> \o BytesRepr(key.v) \o <<39>>

\* A struct's keys are its tags, a map's keys are decoded values.
KeyStr(key, is_map) == IF is_map THEN Str(key) ELSE Digits(key)

RECURSIVE StrLess(_, _)
StrLess(a, b) ==
    IF b = <<>> THEN FALSE
    ELSE IF a = <<>> THEN TRUE
    ELSE IF Head(a) # Head(b) THEN Head(a) < Head(b)
    ELSE StrLess(Tail(a), Tail(b))

\* list.sort(key=...) is stable: insert after the items that are not greater.
RECURSIVE InsertSorted(_, _, _)
InsertSorted(items, it, is_map) ==
    IF items = <<>> THEN <<it>>
    ELSE IF StrLess(KeyStr(it[1], is_map), KeyStr(Head(items)[1], is_map))
         THEN <<it>> \o items
    ELSE <<Head(items)>> \o InsertSorted(Tail(items), it, is_map)

RECURSIVE SortItems(_, _, _)
SortItems(items, acc, is_map) ==
    IF items = <<>> THEN acc
    ELSE SortItems(Tail(items), InsertSorted(acc, Head(items), is_map), is_map)

RECURSIVE freeze_key(_)
RECURSIVE FreezeAll(_)
FreezeAll(vs) ==
    IF vs = <<>> THEN <<>> ELSE <<freeze_key(Head(vs))>> \o FreezeAll(Tail(vs))

RECURSIVE FreezeItems(_)
FreezeItems(fs) ==
    IF fs = <<>> THEN <<>>
    ELSE <<<<Head(fs)[1], freeze_key(Head(fs)[2])>>>> \o FreezeItems(Tail(fs))

freeze_key(obj) ==
    IF obj.k = "struct" THEN TupleV(SortItems(FreezeItems(obj.v), <<>>, FALSE))
    ELSE IF obj.k = "map" THEN TupleV(SortItems(FreezeItems(obj.v), <<>>, TRUE))
    ELSE IF obj.k = "list" THEN TupleV(FreezeAll(obj.v))
    ELSE obj

(***************************************************************************)
(* The decoders call themselves through _read_value, as deep as the data   *)
(* nests.  The model keeps the call stack as a value: a configuration is   *)
(* the cursor position, the _recursion_limit of every live decoder object  *)
(* (lims, the running decoder's last), the frames of the calls in          *)
(* progress (stack, the running call last), the value the last finished    *)
(* call returned (ret) and, once an exception is raised, its class (err)   *)
(* and its loc.  A frame holds the function, the point it resumes at (ph)  *)
(* and its local variables.  A function is entered by pushing its frame;   *)
(* it then runs up to its next call of _read_value or _skip_value, which   *)
(* returns at once for a scalar and pushes a frame for a container.        *)
(***************************************************************************)
Config(p) ==
    [mode |-> "run", pos |-> p, lims |-> <<RECURSION_LIMIT>>, stack |-> <<>>,
     ret |-> NoneV, err |-> "", loc |-> <<>>]

Frame(fn, ph) ==
    [fn |-> fn, ph |-> ph, n |-> 0, acc |-> <<>>, tag |-> 0, key |-> NoneV,
     schema |-> "", name |-> "", inner |-> FALSE]

Top(c) == c.stack[Len(c.stack)]
Push(c, f) == [c EXCEPT !.stack = Append(@, f)]
Pop(c) == [c EXCEPT !.stack = SubSeq(@, 1, Len(@) - 1)]
SetTop(c, f) == [c EXCEPT !.stack[Len(c.stack)] = f]
At(c, p) == [c EXCEPT !.pos = p]

\* raise: the frames are unwound one by one, see unwind.
Raise(c, e) == [c EXCEPT !.mode = "raise", !.err = e]
\* return v from the running call.
Return(c, v) == [Pop(c) EXCEPT !.ret = v]
\* The outcome r of a DataReader operation, as the value of an expression.
Gives(c, r) ==
    IF r.st # "ok" THEN Raise(At(c, r.pos), r.st)
    ELSE [c EXCEPT !.pos = r.pos, !.ret = r.val]

\* self._recursion_limit, self._recursion_limit -= 1, self._recursion_limit += 1
\* A reader that leaves without its finally: the budget is not given back.
Leave_unrestored(c) == c

Lim(c) == c.lims[Len(c.lims)]
Enter(c) == [c EXCEPT !.lims[Len(c.lims)] = @ - 1]
Leave(c) == [c EXCEPT !.lims[Len(c.lims)] = @ + 1]

unknown_type(c, type_id) == Raise(c, MalformedData)

struct_end_value(c) == [c EXCEPT !.ret = NoneV]

\* _check_recursion one level late.
check_recursion_late(lim) == lim < 0

check_recursion(lim) == lim <= 0

read_integer_generic(c) == Push(c, Frame("read_integer_generic", "start"))

read_list(c) ==
    IF check_recursion(Lim(c)) THEN Raise(c, RecursionLimitExceeded)
    ELSE Push(Enter(c), Frame("read_list", "start"))

read_map(c) ==
    IF check_recursion(Lim(c)) THEN Raise(c, RecursionLimitExceeded)
    ELSE Push(Enter(c), Frame("read_map", "start"))

read_struct(c) ==
    IF check_recursion(Lim(c)) THEN Raise(c, RecursionLimitExceeded)
    ELSE Push(Enter(c), Frame("read_struct", "start"))

read_simple_list(c) == Push(c, Frame("read_simple_list", "start"))

string4_length_error(length) == length < 0 \/ length > MAX_STRING_LENGTH

read_string4(b, p, le) ==
    LET length == read_int4(b, p, le)
    IN  IF length.st # "ok" THEN length
        ELSE IF string4_length_error(length.val) THEN Fail(MalformedData, length.pos)
        ELSE LET d == read_bytes(b, length.pos, length.val)
             IN  IF d.st # "ok" THEN d ELSE With(d, BytesV(d.val))

read_string1(b, p) ==
    LET length == read_u8(b, p)
    IN  IF length.st # "ok" THEN length
        ELSE LET d == read_bytes(b, length.pos, length.val)
             IN  IF d.st # "ok" THEN d ELSE With(d, BytesV(d.val))

\* r, a DataReader result, as a decoded value made by mk.
Wrapped(r, mk(_)) == IF r.st # "ok" THEN r ELSE With(r, mk(r.val))

read_value(b, le, c, type_id) ==
    CASE type_id = JCE_ZERO_TAG -> [c EXCEPT !.ret = IntV(0)]
      [] type_id = JCE_INT1 -> Gives(c, Wrapped(read_int1(b, c.pos), IntV))
      [] type_id = JCE_INT2 -> Gives(c, Wrapped(read_int2(b, c.pos, le), IntV))
      [] type_id = JCE_INT4 -> Gives(c, Wrapped(read_int4(b, c.pos, le), IntV))
      [] type_id = JCE_INT8 -> Gives(c, Wrapped(read_int8(b, c.pos, le), Int8V))
      [] type_id = JCE_FLOAT -> Gives(c, Wrapped(read_float(b, c.pos, le), F32V))
      [] type_id = JCE_DOUBLE -> Gives(c, Wrapped(read_double(b, c.pos, le), F64V))
      [] type_id = JCE_STRING1 -> Gives(c, read_string1(b, c.pos))
      [] type_id = JCE_STRING4 -> Gives(c, read_string4(b, c.pos, le))
      [] type_id = JCE_LIST -> read_list(c)
      [] type_id = JCE_MAP -> read_map(c)
      [] type_id = JCE_STRUCT_BEGIN -> read_struct(c)
      [] type_id = JCE_STRUCT_END -> struct_end_value(c)
      [] type_id = JCE_SIMPLE_LIST -> read_simple_list(c)
      [] OTHER -> unknown_type(c, type_id)

\* _read_integer_generic without the cap.
length_error_uncapped(x) ==
    \/ ~IsInt(x)
    \/ IsNegative(x)

\* The length checks of _read_integer_generic on the decoded value.
length_error(x) ==
    \/ ~IsInt(x)
    \/ IsNegative(x)
    \/ Exceeds(x, MAX_CONTAINER_SIZE)

read_integer_generic_resume(b, le, c) ==
    LET f == Top(c)
    IN  IF f.ph = "start"
        THEN LET h == read_head(b, c.pos)
             IN  IF h.st # "ok" THEN Raise(At(c, h.pos), h.st)
                 ELSE read_value(b, le, SetTop(At(c, h.pos), [f EXCEPT !.ph = "val"]),
                                 h.val[2])
        ELSE IF length_error(c.ret) THEN Raise(c, MalformedData)
        ELSE Return(c, c.ret.v[1])

\* for _ in range(size): the loop of _read_list, n elements to go.
read_list_loop(b, le, c) ==
    LET f == Top(c)
    IN  IF f.n = 0 THEN Return(Leave(c), ListV(f.acc))
        ELSE LET h == read_head(b, c.pos)
             IN  IF h.st # "ok" THEN Raise(At(c, h.pos), h.st)
                 ELSE read_value(b, le, SetTop(At(c, h.pos), [f EXCEPT !.ph = "item"]),
                                 h.val[2])

read_list_resume(b, le, c) ==
    LET f == Top(c)
    IN  CASE f.ph = "start" -> read_integer_generic(SetTop(c, [f EXCEPT !.ph = "size"]))
          [] f.ph = "size" -> read_list_loop(b, le, SetTop(c, [f EXCEPT !.n = c.ret]))
          [] f.ph = "item" ->
                read_list_loop(b, le,
                    SetTop(c, [f EXCEPT !.n = @ - 1, !.acc = Append(@, c.ret)]))

map_key_tag_ok(k_tag) == k_tag = 0

\* _read_map without the check of the value's tag.
map_value_tag_unchecked(v_tag) == TRUE

map_value_tag_ok(v_tag) == v_tag = 1

\* _read_map returning its entries as a JceDict, as _read_struct does.
read_map_loop_as_struct(b, le, c) ==
    LET f == Top(c)
    IN  IF f.n = 0 THEN Return(Leave(c), StructV(f.acc))
        ELSE LET kh == read_head(b, c.pos)
             IN  IF kh.st # "ok" THEN Raise(At(c, kh.pos), kh.st)
                 ELSE IF ~map_key_tag_ok(kh.val[1]) THEN Raise(At(c, kh.pos), MalformedData)
                 ELSE read_value(b, le, SetTop(At(c, kh.pos), [f EXCEPT !.ph = "key"]),
                                 kh.val[2])

\* for _ in range(length): the loop of _read_map, up to the read of the key.
read_map_loop(b, le, c) ==
    LET f == Top(c)
    IN  IF f.n = 0 THEN Return(Leave(c), MapV(f.acc))
        ELSE LET kh == read_head(b, c.pos)
             IN  IF kh.st # "ok" THEN Raise(At(c, kh.pos), kh.st)
                 ELSE IF ~map_key_tag_ok(kh.val[1]) THEN Raise(At(c, kh.pos), MalformedData)
                 ELSE read_value(b, le, SetTop(At(c, kh.pos), [f EXCEPT !.ph = "key"]),
                                 kh.val[2])

\* The key is read: the value's header and the value.
read_map_value(b, le, c) ==
    LET f == Top(c)
        vh == read_head(b, c.pos)
    IN  IF vh.st # "ok" THEN Raise(At(c, vh.pos), vh.st)
        ELSE IF ~map_value_tag_ok(vh.val[1]) THEN Raise(At(c, vh.pos), MalformedData)
        ELSE read_value(b, le,
                 SetTop(At(c, vh.pos), [f EXCEPT !.ph = "val", !.key = c.ret]), vh.val[2])

read_map_resume(b, le, c) ==
    LET f == Top(c)
    IN  CASE f.ph = "start" -> read_integer_generic(SetTop(c, [f EXCEPT !.ph = "length"]))
          [] f.ph = "length" -> read_map_loop(b, le, SetTop(c, [f EXCEPT !.n = c.ret]))
          [] f.ph = "key" -> read_map_value(b, le, c)
          [] f.ph = "val" ->
                read_map_loop(b, le,
                    SetTop(c, [f EXCEPT !.n = @ - 1,
                                        !.acc = Put(@, freeze_key(f.key), c.ret)]))

\* while True: the loop of _read_struct.
read_struct_loop(b, le, c) ==
    LET f == Top(c)
        pk == peek_u8(b, c.pos)
    IN  IF pk.st # "ok" THEN Raise(At(c, pk.pos), pk.st)
        ELSE IF pk.val % 16 = JCE_STRUCT_END
             THEN Return(Leave(At(c, read_u8(b, c.pos).pos)), StructV(f.acc))
        ELSE LET h == read_head(b, c.pos)
             IN  IF h.st # "ok" THEN Raise(At(c, h.pos), h.st)
                 ELSE read_value(b, le,
                          SetTop(At(c, h.pos), [f EXCEPT !.ph = "field", !.tag = h.val[1]]),
                          h.val[2])

read_struct_resume(b, le, c) ==
    LET f == Top(c)
    IN  IF f.ph = "start" THEN read_struct_loop(b, le, c)
        ELSE read_struct_loop(b, le, SetTop(c, [f EXCEPT !.acc = Put(@, f.tag, c.ret)]))

read_simple_list_resume(b, le, c) ==
    LET f == Top(c)
    IN  IF f.ph = "start"
        THEN LET h == read_head(b, c.pos)
             IN  IF h.st # "ok" THEN Raise(At(c, h.pos), h.st)
                 ELSE IF h.val[2] # JCE_INT1 THEN Raise(At(c, h.pos), MalformedData)
                 ELSE read_integer_generic(SetTop(At(c, h.pos), [f EXCEPT !.ph = "length"]))
        ELSE Gives(Pop(c), Wrapped(read_bytes(b, c.pos, c.ret), BytesV))

\* The loop of GenericDecoder.decode with the header looked at, not read.
decode_loop_unread(b, le, c) ==
    LET f == Top(c)
    IN  IF eof(b, c.pos) THEN Return(c, StructV(f.acc))
        ELSE LET h == read_head(b, c.pos)
             IN  IF h.st # "ok" THEN Raise(At(c, h.pos), h.st)
                 ELSE IF h.val[2] = JCE_STRUCT_END THEN Return(At(c, h.pos), StructV(f.acc))
                 ELSE read_value(b, le,
                          SetTop(c, [f EXCEPT !.ph = "field", !.tag = h.val[1]]),
                          h.val[2])

\* while not self._reader.eof: the loop of GenericDecoder.decode.
decode_loop(b, le, c) ==
    LET f == Top(c)
    IN  IF eof(b, c.pos) THEN Return(c, StructV(f.acc))
        ELSE LET h == read_head(b, c.pos)
             IN  IF h.st # "ok" THEN Raise(At(c, h.pos), h.st)
                 ELSE IF h.val[2] = JCE_STRUCT_END THEN Return(At(c, h.pos), StructV(f.acc))
                 ELSE read_value(b, le,
                          SetTop(At(c, h.pos), [f EXCEPT !.ph = "field", !.tag = h.val[1]]),
                          h.val[2])

decode_resume(b, le, c) ==
    LET f == Top(c)
    IN  IF f.ph = "start" THEN decode_loop(b, le, c)
        ELSE decode_loop(b, le, SetTop(c, [f EXCEPT !.acc = Put(@, f.tag, c.ret)]))


(***************************************************************************)
(* The skip path: _skip_value and the container skippers.                  *)
(***************************************************************************)
\* STRING1 skipped as its length byte alone.
skip_string1_length_only(b, p) ==
    LET length == read_u8(b, p)
    IN  IF length.st # "ok" THEN length ELSE Ok(length.pos, <<>>)

skip_string1(b, p) ==
    LET length == read_u8(b, p)
    IN  IF length.st # "ok" THEN length ELSE skip(b, length.pos, length.val)

\* STRING4 skipped with its length read big-endian in either byte order.
skip_string4_big_endian(b, p, le) ==
    LET length == read_int4(b, p, FALSE)
    IN  IF length.st # "ok" THEN length
        ELSE IF string4_length_error(length.val) THEN Fail(MalformedData, length.pos)
        ELSE skip(b, length.pos, length.val)

skip_string4(b, p, le) ==
    LET length == read_int4(b, p, le)
    IN  IF length.st # "ok" THEN length
        ELSE IF string4_length_error(length.val) THEN Fail(MalformedData, length.pos)
        ELSE skip(b, length.pos, length.val)

skip_list(c) == Push(c, Frame("skip_list", "start"))
skip_map(c) == Push(c, Frame("skip_map", "start"))
skip_struct(c) == Push(c, Frame("skip_struct", "start"))
skip_simple_list(c) == Push(c, Frame("skip_simple_list", "start"))

\* No branch of _skip_value takes STRUCT_END or an id over 13: it returns.
skip_value(b, le, c, type_id) ==
    CASE type_id = JCE_ZERO_TAG -> [c EXCEPT !.ret = NoneV]
      [] type_id = JCE_INT1 -> Gives(c, With(skip(b, c.pos, 1), NoneV))
      [] type_id = JCE_INT2 -> Gives(c, With(skip(b, c.pos, 2), NoneV))
      [] type_id = JCE_INT4 -> Gives(c, With(skip(b, c.pos, 4), NoneV))
      [] type_id = JCE_INT8 -> Gives(c, With(skip(b, c.pos, 8), NoneV))
      [] type_id = JCE_FLOAT -> Gives(c, With(skip(b, c.pos, 4), NoneV))
      [] type_id = JCE_DOUBLE -> Gives(c, With(skip(b, c.pos, 8), NoneV))
      [] type_id = JCE_STRING1 -> Gives(c, With(skip_string1(b, c.pos), NoneV))
      [] type_id = JCE_STRING4 -> Gives(c, With(skip_string4(b, c.pos, le), NoneV))
      [] type_id = JCE_LIST -> skip_list(c)
      [] type_id = JCE_MAP -> skip_map(c)
      [] type_id = JCE_STRUCT_BEGIN -> skip_struct(c)
      [] type_id = JCE_SIMPLE_LIST -> skip_simple_list(c)
      [] OTHER -> [c EXCEPT !.ret = NoneV]

skip_list_loop(b, le, c) ==
    LET f == Top(c)
    IN  IF f.n = 0 THEN Return(c, NoneV)
        ELSE LET h == read_head(b, c.pos)
             IN  IF h.st # "ok" THEN Raise(At(c, h.pos), h.st)
                 ELSE skip_value(b, le, SetTop(At(c, h.pos), [f EXCEPT !.ph = "item"]),
                                 h.val[2])

skip_list_resume(b, le, c) ==
    LET f == Top(c)
    IN  CASE f.ph = "start" -> read_integer_generic(SetTop(c, [f EXCEPT !.ph = "length"]))
          [] f.ph = "length" -> skip_list_loop(b, le, SetTop(c, [f EXCEPT !.n = c.ret]))
          [] f.ph = "item" -> skip_list_loop(b, le, SetTop(c, [f EXCEPT !.n = @ - 1]))

skip_map_loop(b, le, c) ==
    LET f == Top(c)
    IN  IF f.n = 0 THEN Return(c, NoneV)
        ELSE LET kh == read_head(b, c.pos)
             IN  IF kh.st # "ok" THEN Raise(At(c, kh.pos), kh.st)
                 ELSE skip_value(b, le, SetTop(At(c, kh.pos), [f EXCEPT !.ph = "key"]),
                                 kh.val[2])

skip_map_value(b, le, c) ==
    LET f == Top(c)
        vh == read_head(b, c.pos)
    IN  IF vh.st # "ok" THEN Raise(At(c, vh.pos), vh.st)
        ELSE skip_value(b, le, SetTop(At(c, vh.pos), [f EXCEPT !.ph = "val"]), vh.val[2])

skip_map_resume(b, le, c) ==
    LET f == Top(c)
    IN  CASE f.ph = "start" -> read_integer_generic(SetTop(c, [f EXCEPT !.ph = "length"]))
          [] f.ph = "length" -> skip_map_loop(b, le, SetTop(c, [f EXCEPT !.n = c.ret]))
          [] f.ph = "key" -> skip_map_value(b, le, c)
          [] f.ph = "val" -> skip_map_loop(b, le, SetTop(c, [f EXCEPT !.n = @ - 1]))

skip_struct_resume(b, le, c) ==
    LET f == Top(c)
        pk == peek_u8(b, c.pos)
    IN  IF pk.st # "ok" THEN Raise(At(c, pk.pos), pk.st)
        ELSE IF pk.val % 16 = JCE_STRUCT_END
             THEN Return(At(c, read_u8(b, c.pos).pos), NoneV)
        ELSE LET h == read_head(b, c.pos)
             IN  IF h.st # "ok" THEN Raise(At(c, h.pos), h.st)
                 ELSE skip_value(b, le, SetTop(At(c, h.pos), [f EXCEPT !.ph = "field"]),
                                 h.val[2])

skip_simple_list_resume(b, le, c) ==
    LET f == Top(c)
    IN  IF f.ph = "start"
        THEN LET h == read_head(b, c.pos)
             IN  IF h.st # "ok" THEN Raise(At(c, h.pos), h.st)
                 ELSE read_integer_generic(SetTop(At(c, h.pos), [f EXCEPT !.ph = "length"]))
        ELSE Gives(Pop(c), With(skip(b, c.pos, c.ret), NoneV))


(***************************************************************************)
(* SchemaDecoder.  A schema is the sequence of its fields: the name, the   *)
(* tag (jce_id), struct: the schema of a nested record type or "", items:  *)
(* the schema of the records of a list[record] annotation or "".           *)
(***************************************************************************)
Field(name, tag, struct, items) ==
    [name |-> name, tag |-> tag, struct |-> struct, items |-> items]

Fields(schema) ==
    IF schema = "Root"
    THEN << Field("a", 0, "", ""), Field("inner", 1, "Inner", ""),
            Field("items", 2, "", "Inner"), Field("name", 3, "", "") >>
    ELSE IF schema = "Loose"
    THEN << Field("v", 0, "", ""), Field("inner", 1, "LooseInner", ""),
            Field("items", 2, "", "LooseInner") >>
    ELSE IF schema = "LooseInner"
    THEN << Field("v", 0, "", "") >>
    ELSE << Field("x", 0, "", ""), Field("child", 1, "Inner", "") >>

\* expected_type is None: the fields declared without a type, "any" fields.
expected_type_is_none(schema, name) ==
    schema \in {"Loose", "LooseInner"} /\ name = "v"

\* _field_map[tag]: the dict comprehension keeps the last field of a tag.
RECURSIVE field_map(_, _)
field_map(fs, tag) ==
    IF fs = <<>> THEN <<>>
    ELSE LET rest == field_map(Tail(fs), tag)
         IN  IF rest # <<>> THEN rest
             ELSE IF Head(fs).tag = tag THEN <<Head(fs)>> ELSE <<>>

DictV(es) == [k |-> "dict", v |-> es]

\* The exceptions that are a JceDecodeError and carry a loc, empty when
\* raised: JceDecodeError itself and its subclass JcePartialDataError.
JceDecodeError == {MalformedData, PartialData}

\* except JceDecodeError as e: e.loc.insert(0, field_name); raise
is_decode_error(st) == st \in JceDecodeError

\* The field name put after the names loc has, not before them.
annotate_append(c, name) ==
    IF is_decode_error(c.err) THEN [c EXCEPT !.loc = Append(@, name)] ELSE c

annotate(c, name) ==
    IF is_decode_error(c.err) THEN [c EXCEPT !.loc = <<name>> \o @] ELSE c

\* The name-keyed form of a decoded map: _read_struct_fallback.  The type id
\* is not STRUCT_BEGIN there, so the dict it renames is a map's.  str(k) of
\* a key that is not an integer is named by the key's own rendering.
RECURSIVE rename_keys(_, _, _)
rename_keys(es, schema, acc) ==
    IF es = <<>> THEN acc
    ELSE LET key == Head(es)[1]
             f == IF key.k = "int" THEN field_map(Fields(schema), key.v[1]) ELSE <<>>
             name == IF f # <<>> THEN f[1].name
                     ELSE IF key.k = "int" THEN ToString(key.v[1]) ELSE ToString(key)
         IN  rename_keys(Tail(es), schema, Put(acc, name, Head(es)[2]))

\* SchemaDecoder(self._reader, expected_type, ...).decode_to_dict(): a decoder
\* object of its own, with a _recursion_limit of its own.
inner_decoder(c, schema) ==
    Push([c EXCEPT !.lims = Append(@, RECURSION_LIMIT)],
         [Frame("decode_to_dict", "start") EXCEPT !.schema = schema, !.inner = TRUE])

\* The inner decoder object is dropped with the call that made it.
Dropped(c, f) ==
    IF f.inner THEN [c EXCEPT !.lims = SubSeq(@, 1, Len(@) - 1)] ELSE c

read_struct_fallback(b, le, c, type_id, schema) ==
    read_value(b, le, Push(c, [Frame("read_struct_fallback", "val") EXCEPT !.schema = schema]),
               type_id)

read_struct_fallback_resume(b, le, c) ==
    LET f == Top(c)
    IN  IF c.ret.k = "map" THEN Return(c, DictV(rename_keys(c.ret.v, f.schema, <<>>)))
        ELSE Return(c, DictV(<<<<"_raw_value", c.ret>>>>))

read_list_of_structs(c, schema) ==
    IF check_recursion(Lim(c)) THEN Raise(c, RecursionLimitExceeded)
    ELSE Push(Enter(c), [Frame("read_list_of_structs", "start") EXCEPT !.schema = schema])

read_list_of_structs_loop(b, le, c) ==
    LET f == Top(c)
    IN  IF f.n = 0 THEN Return(Leave(c), ListV(f.acc))
        ELSE LET h == read_head(b, c.pos)
                 c1 == SetTop(At(c, h.pos), [f EXCEPT !.ph = "item"])
             IN  IF h.st # "ok" THEN Raise(At(c, h.pos), h.st)
                 ELSE IF h.val[2] = JCE_STRUCT_BEGIN THEN inner_decoder(c1, f.schema)
                 ELSE read_struct_fallback(b, le, c1, h.val[2], f.schema)

read_list_of_structs_resume(b, le, c) ==
    LET f == Top(c)
    IN  CASE f.ph = "start" -> read_integer_generic(SetTop(c, [f EXCEPT !.ph = "length"]))
          [] f.ph = "length" ->
                read_list_of_structs_loop(b, le, SetTop(c, [f EXCEPT !.n = c.ret]))
          [] f.ph = "item" ->
                read_list_of_structs_loop(b, le,
                    SetTop(c, [f EXCEPT !.n = @ - 1, !.acc = Append(@, c.ret)]))

decode_list_field(b, le, c, fld, type_id) ==
    IF fld.items # "" THEN read_list_of_structs(c, fld.items)
    ELSE read_value(b, le, c, type_id)

\* The value of a field the schema knows.
read_field(b, le, c, fld, type_id) ==
    IF fld.struct # "" /\ type_id = JCE_STRUCT_BEGIN THEN inner_decoder(c, fld.struct)
    ELSE IF type_id = JCE_LIST THEN decode_list_field(b, le, c, fld, type_id)
    ELSE read_value(b, le, c, type_id)

\* The loop of decode_to_dict leaving the STRUCT_END that ends it unread.
decode_to_dict_loop_keep_end(b, le, c) ==
    LET f == Top(c)
    IN  IF eof(b, c.pos) THEN Return(Dropped(c, f), DictV(f.acc))
        ELSE LET h == read_head(b, c.pos)
                 fld == field_map(Fields(f.schema), h.val[1])
             IN  IF h.st # "ok" THEN Raise(At(c, h.pos), h.st)
                 ELSE IF h.val[2] = JCE_STRUCT_END
                      THEN Return(Dropped(c, f), DictV(f.acc))
                 ELSE IF fld # <<>>
                      THEN read_field(b, le,
                               SetTop(At(c, h.pos),
                                      [f EXCEPT !.ph = "field", !.name = fld[1].name]),
                               fld[1], h.val[2])
                 ELSE skip_value(b, le, SetTop(At(c, h.pos), [f EXCEPT !.ph = "skip"]),
                                 h.val[2])

\* while not self._reader.eof: the loop of decode_to_dict.
decode_to_dict_loop(b, le, c) ==
    LET f == Top(c)
    IN  IF eof(b, c.pos) THEN Return(Dropped(c, f), DictV(f.acc))
        ELSE LET h == read_head(b, c.pos)
                 fld == field_map(Fields(f.schema), h.val[1])
             IN  IF h.st # "ok" THEN Raise(At(c, h.pos), h.st)
                 ELSE IF h.val[2] = JCE_STRUCT_END
                      THEN Return(Dropped(At(c, h.pos), f), DictV(f.acc))
                 ELSE IF fld # <<>>
                      THEN read_field(b, le,
                               SetTop(At(c, h.pos),
                                      [f EXCEPT !.ph = "field", !.name = fld[1].name]),
                               fld[1], h.val[2])
                 ELSE skip_value(b, le, SetTop(At(c, h.pos), [f EXCEPT !.ph = "skip"]),
                                 h.val[2])

\* The one element of a set of one element.
TheOne(S) == CHOOSE x \in S : TRUE

decode_to_dict_resume(b, le, c) ==
    LET f == Top(c)
    IN  IF f.ph = "field"
        THEN decode_to_dict_loop(b, le,
                 SetTop(c, [f EXCEPT !.ph = "loop", !.acc = Put(@, f.name, c.ret)]))
        ELSE decode_to_dict_loop(b, le, SetTop(c, [f EXCEPT !.ph = "loop"]))

(***************************************************************************)
(* Running a configuration.                                                *)
(***************************************************************************)
\* An exception leaves the running call: the finally of the container
\* readers, the except JceDecodeError of decode_to_dict around a known field.
unwind(c) ==
    LET f == Top(c)
        c1 == IF f.fn \in {"read_list", "read_map", "read_struct", "read_list_of_structs"}
              THEN Leave(Pop(c)) ELSE Pop(c)
    IN  IF f.fn = "decode_to_dict"
        THEN Dropped(IF f.ph = "field" THEN annotate(c1, f.name) ELSE c1, f)
        ELSE c1

Step(b, le, c) ==
    IF c.mode = "raise" THEN unwind(c)
    ELSE LET fn == Top(c).fn
         IN  CASE fn = "decode" -> decode_resume(b, le, c)
               [] fn = "read_integer_generic" -> read_integer_generic_resume(b, le, c)
               [] fn = "read_list" -> read_list_resume(b, le, c)
               [] fn = "read_map" -> read_map_resume(b, le, c)
               [] fn = "read_struct" -> read_struct_resume(b, le, c)
               [] fn = "read_simple_list" -> read_simple_list_resume(b, le, c)
               [] fn = "skip_list" -> skip_list_resume(b, le, c)
               [] fn = "skip_map" -> skip_map_resume(b, le, c)
               [] fn = "skip_struct" -> skip_struct_resume(b, le, c)
               [] fn = "skip_simple_list" -> skip_simple_list_resume(b, le, c)
               [] fn = "decode_to_dict" -> decode_to_dict_resume(b, le, c)
               [] fn = "read_list_of_structs" -> read_list_of_structs_resume(b, le, c)
               [] fn = "read_struct_fallback" -> read_struct_fallback_resume(b, le, c)

\* Up to 2^k steps, until no call is in progress.
RECURSIVE Run(_, _, _, _)
Run(b, le, c, k) ==
    IF c.stack = <<>> THEN c
    ELSE IF k = 0 THEN Step(b, le, c)
    ELSE Run(b, le, Run(b, le, c, k - 1), k - 1)

\* What the caller sees: the value returned or the exception raised, and
\* where the cursor is left.
Result(c) ==
    [st |-> IF c.stack # <<>> THEN "running"
            ELSE IF c.mode = "raise" THEN c.err ELSE "ok",
     pos |-> c.pos,
     val |-> IF c.stack = <<>> /\ c.mode = "run" THEN c.ret ELSE <<>>,
     loc |-> c.loc]

\* GenericDecoder(reader, option).decode()
decode(b, p, le) ==
    Result(Run(b, le, Push(Config(p), Frame("decode", "start")), MaxStepsLog))

\* SchemaDecoder(reader, schema, option).decode_to_dict()
decode_to_dict(b, p, le, schema) ==
    Result(Run(b, le,
               Push(Config(p), [Frame("decode_to_dict", "start") EXCEPT !.schema = schema]),
               MaxStepsLog))


(***************************************************************************)
(* The encoder, as the wire format fixes it: a header, then the payload in *)
(* the width and byte order the decoder reads.  A value to encode may      *)
(* also be a "str" (v its UTF-8 bytes), written as a short or long string; *)
(* "bytes" are written as a simple list.                                   *)
(***************************************************************************)
StrV(bs) == [k |-> "str", v |-> bs]

write_head(tag, type_id) ==
    IF tag < 15 THEN <<tag * 16 + type_id>> ELSE <<240 + type_id, tag>>

Bytes2(n) == <<(n \div 256) % 256, n % 256>>
Bytes4(n) == <<(n \div 16777216) % 256, (n \div 65536) % 256, (n \div 256) % 256, n % 256>>

encode_int(tag, x, le) ==
    IF x.k = "wide" THEN write_head(tag, JCE_INT8) \o Ordered(x.v, le)
    ELSE LET n == x.v[1]
         IN  IF n = 0 THEN write_head(tag, JCE_ZERO_TAG)
             ELSE IF n >= -128 /\ n <= 127 THEN write_head(tag, JCE_INT1) \o <<n % 256>>
             ELSE IF n >= -32768 /\ n <= 32767
                  THEN write_head(tag, JCE_INT2) \o Ordered(Bytes2(n), le)
             ELSE write_head(tag, JCE_INT4) \o Ordered(Bytes4(n), le)

encode_string(tag, bs, le) ==
    IF Len(bs) <= 255 THEN write_head(tag, JCE_STRING1) \o <<Len(bs)>> \o bs
    ELSE write_head(tag, JCE_STRING4) \o Ordered(Bytes4(Len(bs)), le) \o bs

RECURSIVE encode_value(_, _, _)
RECURSIVE encode_items(_, _)
RECURSIVE encode_entries(_, _)
RECURSIVE encode_fields(_, _)

encode_items(xs, le) ==
    IF xs = <<>> THEN <<>>
    ELSE encode_value(0, Head(xs), le) \o encode_items(Tail(xs), le)

encode_entries(ps, le) ==
    IF ps = <<>> THEN <<>>
    ELSE encode_value(0, Head(ps)[1], le) \o encode_value(1, Head(ps)[2], le)
             \o encode_entries(Tail(ps), le)

encode_fields(fs, le) ==
    IF fs = <<>> THEN <<>>
    ELSE encode_value(Head(fs)[1], Head(fs)[2], le) \o encode_fields(Tail(fs), le)

encode_value(tag, x, le) ==
    CASE x.k \in {"int", "wide"} -> encode_int(tag, x, le)
      [] x.k = "f32" -> write_head(tag, JCE_FLOAT) \o Ordered(x.v, le)
      [] x.k = "f64" -> write_head(tag, JCE_DOUBLE) \o Ordered(x.v, le)
      [] x.k = "str" -> encode_string(tag, x.v, le)
      [] x.k = "bytes" ->
            write_head(tag, JCE_SIMPLE_LIST) \o write_head(0, JCE_INT1)
                \o encode_int(0, IntV(Len(x.v)), le) \o x.v
      [] x.k = "list" ->
            write_head(tag, JCE_LIST) \o encode_int(0, IntV(Len(x.v)), le)
                \o encode_items(x.v, le)
      [] x.k = "map" ->
            write_head(tag, JCE_MAP) \o encode_int(0, IntV(Len(x.v)), le)
                \o encode_entries(x.v, le)
      [] x.k = "struct" ->
            write_head(tag, JCE_STRUCT_BEGIN) \o encode_fields(x.v, le)
                \o write_head(0, JCE_STRUCT_END)

\* A struct at top level is its fields, one after the other.
encode(x, le) == encode_fields(x.v, le)

\* What generic decoding gives back for an encoded value: a string as its
\* bytes, a composite map key as its frozen form.
RECURSIVE Decoded(_)
RECURSIVE DecodedAll(_)
RECURSIVE DecodedPairs(_, _)
DecodedAll(xs) ==
    IF xs = <<>> THEN <<>> ELSE <<Decoded(Head(xs))>> \o DecodedAll(Tail(xs))
DecodedPairs(ps, is_map) ==
    IF ps = <<>> THEN <<>>
    ELSE <<<<IF is_map THEN freeze_key(Decoded(Head(ps)[1])) ELSE Head(ps)[1],
             Decoded(Head(ps)[2])>>>> \o DecodedPairs(Tail(ps), is_map)
Decoded(x) ==
    CASE x.k = "str" -> BytesV(x.v)
      [] x.k = "list" -> ListV(DecodedAll(x.v))
      [] x.k = "map" -> MapV(DecodedPairs(x.v, TRUE))
      [] x.k = "struct" -> StructV(DecodedPairs(x.v, FALSE))
      [] OTHER -> x

(***************************************************************************)
(* The byte-content classifier: _is_safe_text and convert_bytes_recursive. *)
(* A str is a "text" value, v its code points.  The interpreter's stack is *)
(* a number of frames left: a call that finds none raises RecursionError.  *)
(***************************************************************************)
TextV(cps) == [k |-> "text", v |-> cps]

\* An exception on its way out of convert_bytes_recursive.
RaiseV(e) == [k |-> "raise", v |-> <<e>>]

IsCont(b) == b >= 128 /\ b <= 191

UnicodeDecodeError == [ok |-> FALSE, s |-> <<>>]

\* bytes.decode("utf-8"): the code points of well-formed UTF-8 (shortest
\* form, no surrogates, at most U+10FFFF), UnicodeDecodeError otherwise.
RECURSIVE utf8_decode(_, _)
utf8_decode(bs, acc) ==
    IF bs = <<>> THEN [ok |-> TRUE, s |-> acc]
    ELSE LET b1 == bs[1]
             n == Len(bs)
         IN  IF b1 < 128 THEN utf8_decode(Tail(bs), Append(acc, b1))
             ELSE IF b1 >= 194 /\ b1 <= 223
                  THEN IF n >= 2 /\ IsCont(bs[2])
                       THEN utf8_decode(SubSeq(bs, 3, n),
                                Append(acc, (b1 - 192) * 64 + (bs[2] - 128)))
                       ELSE UnicodeDecodeError
             ELSE IF b1 >= 224 /\ b1 <= 239
                  THEN IF n >= 3 /\ IsCont(bs[2]) /\ IsCont(bs[3])
                          /\ (b1 = 224 => bs[2] >= 160) /\ (b1 = 237 => bs[2] <= 159)
                       THEN utf8_decode(SubSeq(bs, 4, n),
                                Append(acc, (b1 - 224) * 4096 + (bs[2] - 128) * 64
                                                + (bs[3] - 128)))
                       ELSE UnicodeDecodeError
             ELSE IF b1 >= 240 /\ b1 <= 244
                  THEN IF n >= 4 /\ IsCont(bs[2]) /\ IsCont(bs[3]) /\ IsCont(bs[4])
                          /\ (b1 = 240 => bs[2] >= 144) /\ (b1 = 244 => bs[2] <= 143)
                       THEN utf8_decode(SubSeq(bs, 5, n),
                                Append(acc, (b1 - 240) * 262144 + (bs[2] - 128) * 4096
                                                + (bs[3] - 128) * 64 + (bs[4] - 128)))
                       ELSE UnicodeDecodeError
             ELSE UnicodeDecodeError

isascii(s) == \A i \in 1..Len(s) : s[i] < 128

\* str.isprintable of one character, for ASCII, Latin-1 and the CJK unified
\* ideographs: controls (Cc), the no-break space (Zs) and the soft hyphen
\* (Cf) are not printable.  The texts classified here stay in these ranges.
isprintable(c) ==
    IF c < 128 THEN c >= 32 /\ c <= 126
    ELSE IF c < 256 THEN c >= 161 /\ c # 173
    ELSE c >= 19968 /\ c <= 40959

\* "\n\r\t"
Typographic == {10, 13, 9}

is_safe_text(s) ==
    IF s = <<>> THEN TRUE
    ELSE IF isascii(s)
         THEN \A i \in 1..Len(s) : (32 <= s[i] /\ s[i] <= 126) \/ s[i] \in Typographic
    ELSE \A i \in 1..Len(s) : isprintable(s[i]) \/ s[i] \in Typographic

\* A dict key that is bytes becomes text when it decodes to safe text.
convert_key(key) ==
    IF key.k # "bytes" THEN key
    ELSE LET d == utf8_decode(key.v, <<>>)
         IN  IF d.ok /\ is_safe_text(d.s) THEN TextV(d.s) ELSE key

\* except (JceDecodeError, JcePartialDataError) alone.
caught_data_errors(e) == e \in {MalformedData, PartialData}

\* except (JceDecodeError, JcePartialDataError, RecursionError)
caught(e) == e \in {MalformedData, PartialData, RecursionLimitExceeded}

\* (data[0] & 0x0F) <= 13
plausible_type(bs) == (bs[1] % 16) <= JCE_SIMPLE_LIST

RECURSIVE convert_bytes_recursive(_, _, _, _)
RECURSIVE convert_items(_, _, _, _, _)
RECURSIVE convert_list(_, _, _, _, _)

\* for key, value in data.items(): ... result[key] = converted_val
convert_items(items, acc, mode, le, stack) ==
    IF items = <<>> THEN acc
    ELSE LET key == IF acc.k = "map" THEN convert_key(Head(items)[1]) ELSE Head(items)[1]
             converted_val == convert_bytes_recursive(Head(items)[2], mode, le, stack)
         IN  IF converted_val.k = "raise" THEN converted_val
             ELSE convert_items(Tail(items), [acc EXCEPT !.v = Put(@, key, converted_val)],
                                mode, le, stack)

\* [convert_bytes_recursive(item, mode, option) for item in data]
convert_list(items, acc, mode, le, stack) ==
    IF items = <<>> THEN ListV(acc)
    ELSE LET item == convert_bytes_recursive(Head(items), mode, le, stack)
         IN  IF item.k = "raise" THEN item
             ELSE convert_list(Tail(items), Append(acc, item), mode, le, stack)


\* The nested reparse of the auto mode once decode has given r: classify
\* what it gave, still inside the try.
reparsed(data, r, le, stack) ==
    IF r.st # "ok" THEN (IF caught(r.st) THEN data ELSE RaiseV(r.st))
    ELSE LET parsed == convert_bytes_recursive(r.val, "auto", le, stack)
         IN  IF parsed.k = "raise" /\ caught(parsed.v[1]) THEN data ELSE parsed

\* The nested reparse of the auto mode: decode, then classify what it gave,
\* both inside the try.
reparse(data, le, stack) ==
    IF stack = 0 THEN reparsed(data, Fail(RecursionLimitExceeded, 0), le, stack)
    ELSE TheOne({ reparsed(data, r, le, stack) : r \in {decode(data.v, 0, le)} })

\* The auto mode with the reparse tried before the text.
convert_bytes_reparse_first(data, mode, le, stack) ==
    IF Len(data.v) = 0 THEN TextV(<<>>)
    ELSE LET d == utf8_decode(data.v, <<>>)
             text == d.ok /\ is_safe_text(d.s)
             parsed == IF plausible_type(data.v) THEN reparse(data, le, stack) ELSE data
         IN  IF mode = "string" THEN (IF text THEN TextV(d.s) ELSE data)
             ELSE IF parsed # data THEN parsed
             ELSE IF text THEN TextV(d.s)
             ELSE data

\* if isinstance(data, bytes): ...
convert_bytes(data, mode, le, stack) ==
    IF Len(data.v) = 0 THEN TextV(<<>>)
    ELSE LET d == utf8_decode(data.v, <<>>)
             text == d.ok /\ is_safe_text(d.s)
         IN  IF mode = "string" THEN (IF text THEN TextV(d.s) ELSE data)
             ELSE IF text THEN TextV(d.s)
             ELSE IF plausible_type(data.v) THEN reparse(data, le, stack)
             ELSE data

\* convert_bytes_recursive(data, mode, option), called with stack frames
\* left: the call takes one of them.
convert_bytes_recursive(data, mode, le, stack) ==
    IF stack = 0 THEN RaiseV(RecursionLimitExceeded)
    ELSE IF mode = "raw" THEN data
    ELSE CASE data.k = "struct" -> convert_items(data.v, StructV(<<>>), mode, le, stack - 1)
           [] data.k = "map" -> convert_items(data.v, MapV(<<>>), mode, le, stack - 1)
           [] data.k = "list" -> convert_list(data.v, <<>>, mode, le, stack - 1)
           [] data.k = "bytes" -> convert_bytes(data, mode, le, stack - 1)
           [] OTHER -> data

\* loads once decode has given r: the classifier on the decoded value.
loads_convert(r, le, mode, stack) ==
    IF r.st # "ok" THEN r
    ELSE LET final_result == convert_bytes_recursive(r.val, mode, le, stack)
         IN  IF final_result.k = "raise"
             THEN [r EXCEPT !.st = final_result.v[1], !.val = <<>>]
             ELSE With(r, final_result)

\* loads(data, JceDict, option, bytes_mode=mode)
loads(b, le, mode, stack) ==
    TheOne({ loads_convert(r, le, mode, stack) : r \in {decode(b, 0, le)} })

(***************************************************************************)
(* The "any" fields of a schema decode.  decode_to_dict passes the value   *)
(* of a field declared without a type through convert_bytes_recursive in   *)
(* its decoder's _bytes_mode before it stores it.  The conversion reads    *)
(* nothing of the decoder but that mode, so it is applied here to the      *)
(* fields of the dict the decode has built, record by record.              *)
(***************************************************************************)
\* if expected_type is None:
\*     value = convert_bytes_recursive(value, mode=self._bytes_mode, ...)
field_value(schema, name, value, bytes_mode, le) ==
    IF expected_type_is_none(schema, name)
    THEN convert_bytes_recursive(value, bytes_mode, le, RECURSION_LIMIT)
    ELSE value

\* self._fields[field_name]
field_named(schema, name) ==
    LET fs == Fields(schema)
    IN  fs[CHOOSE n \in 1..Len(fs) : fs[n].name = name]

RECURSIVE any_fields(_, _, _, _, _)
RECURSIVE any_records(_, _, _, _)

\* The value of a field as it is read.  The decoder of a nested record is
\* SchemaDecoder(self._reader, expected_type, self._option, self._context)
\* and so is the decoder of each record of a list: neither is given a
\* bytes_mode, their _bytes_mode is the default "auto".
value_read(fld, read, le) ==
    IF fld.struct # "" /\ read.k = "dict"
    THEN any_fields(fld.struct, read.v, <<>>, "auto", le)
    ELSE IF fld.items # "" /\ read.k = "list"
    THEN any_records(fld.items, read.v, <<>>, le)
    ELSE read

\* The fields of one record as its decoder stores them.
any_fields(schema, items, acc, bytes_mode, le) ==
    IF items = <<>> THEN DictV(acc)
    ELSE TheOne({ IF stored.k = "raise" THEN stored
                  ELSE any_fields(schema, Tail(items),
                                  Append(acc, <<Head(items)[1], stored>>),
                                  bytes_mode, le)
                  : stored \in
                      { field_value(schema, Head(items)[1], value, bytes_mode, le)
                        : value \in { value_read(field_named(schema, Head(items)[1]),
                                                 Head(items)[2], le) } } })

\* The records of a list[record] field, each read by a decoder of its own.
any_records(schema, items, acc, le) ==
    IF items = <<>> THEN ListV(acc)
    ELSE TheOne({ IF item.k = "raise" THEN item
                  ELSE any_records(schema, Tail(items), Append(acc, item), le)
                  : item \in { IF Head(items).k = "dict"
                               THEN any_fields(schema, Head(items).v, <<>>, "auto", le)
                               ELSE Head(items) } })

\* decode_to_dict once the fields are read: r with its "any" fields
\* converted, or the error of the conversion.
stored_fields(r, schema, bytes_mode, le) ==
    IF r.st # "ok" THEN r
    ELSE TheOne({ IF d.k = "raise" THEN [r EXCEPT !.st = d.v[1], !.val = <<>>]
                  ELSE With(r, d)
                  : d \in {any_fields(schema, r.val.v, <<>>, bytes_mode, le)} })

\* SchemaDecoder(reader, schema, option, context, bytes_mode=bytes_mode)
\*     .decode_to_dict()
decode_to_dict_mode(b, p, le, schema, bytes_mode) ==
    TheOne({ stored_fields(r, schema, bytes_mode, le)
             : r \in {decode_to_dict(b, p, le, schema)} })

(***************************************************************************)
(* NodeDecoder: the stream as a tree of JceNode(tag, type_id, value,       *)
(* length).  _read_node calls itself for the children of a container and   *)
(* checks no recursion limit; stack is the number of calls the interpreter *)
(* still allows, and a call past it raises RecursionError.                 *)
(***************************************************************************)
NodeV(tag, type_id, value, length) ==
    [k |-> "node", v |-> <<tag, type_id, value, length>>]

NodeFrame(fn, tag) ==
    [fn |-> fn, ph |-> "start", n |-> 0, acc |-> <<>>, tag |-> tag, key |-> NoneV,
     length |-> NoneV]

\* with contextlib.suppress(UnicodeDecodeError): value = value.decode("utf-8")
decode_text(bs) ==
    LET d == utf8_decode(bs, <<>>)
    IN  IF d.ok THEN TextV(d.s) ELSE BytesV(bs)

node_string(c, tag, type_id, length) ==
    IF length.st # "ok" THEN Raise(At(c, length.pos), length.st)
    ELSE [c EXCEPT !.pos = length.pos,
                   !.ret = NodeV(tag, type_id, decode_text(length.val.v),
                                 IntV(Len(length.val.v)))]

node_primitive(c, tag, type_id) ==
    IF c.mode = "raise" THEN c
    ELSE [c EXCEPT !.ret = NodeV(tag, type_id, c.ret, NoneV)]

read_node(b, le, c, tag, type_id, stack) ==
    IF Len(c.stack) >= stack THEN Raise(c, RecursionLimitExceeded)
    ELSE CASE type_id \in {JCE_INT1, JCE_INT2, JCE_INT4, JCE_INT8, JCE_FLOAT,
                           JCE_DOUBLE, JCE_ZERO_TAG} ->
                node_primitive(read_value(b, le, c, type_id), tag, type_id)
           [] type_id = JCE_STRING1 -> node_string(c, tag, type_id, read_string1(b, c.pos))
           [] type_id = JCE_STRING4 ->
                node_string(c, tag, type_id, read_string4(b, c.pos, le))
           [] type_id = JCE_SIMPLE_LIST -> Push(c, NodeFrame("node_simple_list", tag))
           [] type_id = JCE_LIST -> Push(c, NodeFrame("node_list", tag))
           [] type_id = JCE_MAP -> Push(c, NodeFrame("node_map", tag))
           [] type_id = JCE_STRUCT_BEGIN -> Push(c, NodeFrame("node_struct", tag))
           [] OTHER -> Raise(c, MalformedData)

\* _tag, type_ = self._read_head(); self._read_node(tag, type_)
read_child(b, le, c, ph, tagged, stack) ==
    LET h == read_head(b, c.pos)
    IN  IF h.st # "ok" THEN Raise(At(c, h.pos), h.st)
        ELSE read_node(b, le, SetTop(At(c, h.pos), [Top(c) EXCEPT !.ph = ph]),
                       IF tagged THEN IntV(h.val[1]) ELSE NoneV, h.val[2], stack)

node_list_loop(b, le, c, stack) ==
    LET f == Top(c)
    IN  IF f.n = 0 THEN Return(c, NodeV(f.tag, JCE_LIST, ListV(f.acc), f.length))
        ELSE read_child(b, le, c, "item", FALSE, stack)

node_list_resume(b, le, c, stack) ==
    LET f == Top(c)
    IN  CASE f.ph = "start" -> read_integer_generic(SetTop(c, [f EXCEPT !.ph = "length"]))
          [] f.ph = "length" ->
                node_list_loop(b, le,
                    SetTop(c, [f EXCEPT !.n = c.ret, !.length = IntV(c.ret)]), stack)
          [] f.ph = "item" ->
                node_list_loop(b, le,
                    SetTop(c, [f EXCEPT !.n = @ - 1, !.acc = Append(@, c.ret)]), stack)

node_map_loop(b, le, c, stack) ==
    LET f == Top(c)
    IN  IF f.n = 0 THEN Return(c, NodeV(f.tag, JCE_MAP, ListV(f.acc), f.length))
        ELSE read_child(b, le, c, "key", TRUE, stack)

node_map_resume(b, le, c, stack) ==
    LET f == Top(c)
    IN  CASE f.ph = "start" -> read_integer_generic(SetTop(c, [f EXCEPT !.ph = "length"]))
          [] f.ph = "length" ->
                node_map_loop(b, le,
                    SetTop(c, [f EXCEPT !.n = c.ret, !.length = IntV(c.ret)]), stack)
          [] f.ph = "key" ->
                read_child(b, le, SetTop(c, [f EXCEPT !.key = c.ret]), "val", TRUE, stack)
          [] f.ph = "val" ->
                node_map_loop(b, le,
                    SetTop(c, [f EXCEPT !.n = @ - 1,
                                        !.acc = Append(@, TupleV(<<f.key, c.ret>>))]),
                    stack)

\* The STRUCT_END test looks at the low four bits of the next byte and
\* reads that one byte.
node_struct_loop(b, le, c, stack) ==
    LET f == Top(c)
        peek == peek_u8(b, c.pos)
    IN  IF peek.st # "ok" THEN Raise(At(c, peek.pos), peek.st)
        ELSE IF peek.val % 16 = JCE_STRUCT_END
             THEN Return(At(c, read_u8(b, c.pos).pos),
                         NodeV(f.tag, JCE_STRUCT_BEGIN, ListV(f.acc), NoneV))
        ELSE read_child(b, le, c, "field", TRUE, stack)

node_struct_resume(b, le, c, stack) ==
    LET f == Top(c)
    IN  IF f.ph = "start" THEN node_struct_loop(b, le, c, stack)
        ELSE node_struct_loop(b, le, SetTop(c, [f EXCEPT !.acc = Append(@, c.ret)]), stack)

RECURSIVE node_decode(_, _, _)

\* The bytes of a simple list are parsed again by a NodeDecoder of their
\* own, big-endian; except Exception: pass.
node_reparse(data, stack) ==
    IF data # <<>> /\ plausible_type(data)
    THEN LET sub_nodes == node_decode(data, FALSE, stack)
         IN  IF sub_nodes.st = "ok" /\ sub_nodes.val.v # <<>> THEN sub_nodes.val
             ELSE BytesV(data)
    ELSE BytesV(data)

node_simple_list_resume(b, le, c, stack) ==
    LET f == Top(c)
    IN  IF f.ph = "start"
        THEN LET h == read_head(b, c.pos)
             IN  IF h.st # "ok" THEN Raise(At(c, h.pos), h.st)
                 ELSE IF h.val[2] # 0 THEN Raise(At(c, h.pos), MalformedData)
                 ELSE read_integer_generic(SetTop(At(c, h.pos), [f EXCEPT !.ph = "length"]))
        ELSE LET data == read_bytes(b, c.pos, c.ret)
             IN  IF data.st # "ok" THEN Raise(At(c, data.pos), data.st)
                 ELSE Return(At(c, data.pos),
                             NodeV(f.tag, JCE_SIMPLE_LIST,
                                   node_reparse(data.val, stack - Len(c.stack)),
                                   IntV(c.ret)))

\* while not self._reader.eof: the loop of NodeDecoder.decode.
node_decode_loop(b, le, c, stack) ==
    LET f == Top(c)
    IN  IF eof(b, c.pos) THEN Return(c, ListV(f.acc))
        ELSE LET h == read_head(b, c.pos)
             IN  IF h.st # "ok" THEN Raise(At(c, h.pos), h.st)
                 ELSE IF h.val[2] = JCE_STRUCT_END THEN Return(At(c, h.pos), ListV(f.acc))
                 ELSE read_child(b, le, c, "node", TRUE, stack)

node_decode_resume(b, le, c, stack) ==
    LET f == Top(c)
    IN  IF f.ph = "start" THEN node_decode_loop(b, le, c, stack)
        ELSE node_decode_loop(b, le, SetTop(c, [f EXCEPT !.acc = Append(@, c.ret)]), stack)

\* An except clause that lets no exception out of decode.
swallowed_any(e) == TRUE

\* except JcePartialDataError: the nodes read so far are returned.
swallowed(e) == e = PartialData

NodeFunctions ==
    {"node_decode", "node_list", "node_map", "node_struct", "node_simple_list"}

node_unwind(c) ==
    LET f == Top(c)
    IN  IF f.fn = "node_decode" /\ swallowed(c.err)
        THEN Return([c EXCEPT !.mode = "run", !.err = ""], ListV(f.acc))
        ELSE IF f.fn \in NodeFunctions THEN Pop(c)
        ELSE unwind(c)

node_step(b, le, c, stack) ==
    IF c.mode = "raise" THEN node_unwind(c)
    ELSE LET fn == Top(c).fn
         IN  CASE fn = "node_decode" -> node_decode_resume(b, le, c, stack)
               [] fn = "node_list" -> node_list_resume(b, le, c, stack)
               [] fn = "node_map" -> node_map_resume(b, le, c, stack)
               [] fn = "node_struct" -> node_struct_resume(b, le, c, stack)
               [] fn = "node_simple_list" -> node_simple_list_resume(b, le, c, stack)
               [] OTHER -> Step(b, le, c)

RECURSIVE node_run(_, _, _, _, _)
node_run(b, le, c, stack, k) ==
    IF c.stack = <<>> THEN c
    ELSE IF k = 0 THEN node_step(b, le, c, stack)
    ELSE node_run(b, le, node_run(b, le, c, stack, k - 1), stack, k - 1)

\* NodeDecoder(reader, option).decode()
node_decode(b, le, stack) ==
    IF stack <= 0 THEN Fail(RecursionLimitExceeded, 0)
    ELSE Result(node_run(b, le, Push(Config(0), NodeFrame("node_decode", NoneV)),
                         stack, MaxStepsLog))


(***************************************************************************)
(* Calls.  last records the call: op and arg, pre the position before it,  *)
(* st, val and loc its result.                                             *)
(***************************************************************************)
NoCall == [op |-> "none", arg |-> 0, pre |-> 0, st |-> "ok", val |-> <<>>, loc |-> <<>>]

Input(fam, i, j, k) == [fam |-> fam, i |-> i, j |-> j, k |-> k]

Call(op, arg, r) ==
    /\ pos' = r.pos
    /\ last' = [op |-> op, arg |-> arg, pre |-> pos, st |-> r.st, val |-> r.val,
                loc |-> r.loc]
    /\ UNCHANGED <<buf, little_endian, inp>>

(***************************************************************************)
(* Spec: a DataReader over one buffer, its operations called in any order. *)
(***************************************************************************)
Pattern(base, n) == [i \in 1..n |-> base[((i - 1) % Len(base)) + 1]]

CursorBases ==
    << <<127, 128, 0, 0>>, <<0, 0, 128, 127>>, <<79, 0, 0, 0>>,
       <<255, 255, 255, 255>>, <<1, 2, 3, 4, 5, 6, 7, 8>>,
       <<127, 240, 0, 0, 0, 0, 0, 0>>, <<0, 0, 200, 66>>,
       <<2, 0, 0, 0, 65, 66>>, <<0, 0, 0, 1, 65>> >>

Init ==
    /\ inp \in { Input("cursor", i, n, 0) : i \in 1..Len(CursorBases), n \in 0..MaxBufLen }
    /\ buf = Pattern(CursorBases[inp.i], inp.j)
    /\ pos = 0
    /\ little_endian \in BOOLEAN
    /\ last = NoCall
    /\ pc = "start"

ReadBytes ==
    \E n \in -1..MaxReq : Call("read_bytes", n, read_bytes(buf, pos, n)) /\ pc' = pc
ReadU8 == Call("read_u8", 0, read_u8(buf, pos)) /\ pc' = pc
PeekU8 == Call("peek_u8", 0, peek_u8(buf, pos)) /\ pc' = pc
Skip == \E n \in -1..MaxReq : Call("skip", n, skip(buf, pos, n)) /\ pc' = pc
ReadInt1 == Call("read_int1", 0, read_int1(buf, pos)) /\ pc' = pc
ReadInt2 == Call("read_int2", 0, read_int2(buf, pos, little_endian)) /\ pc' = pc
ReadInt4 == Call("read_int4", 0, read_int4(buf, pos, little_endian)) /\ pc' = pc
ReadInt8 == Call("read_int8", 0, read_int8(buf, pos, little_endian)) /\ pc' = pc
ReadFloat == Call("read_float", 0, read_float(buf, pos, little_endian)) /\ pc' = pc
ReadDouble == Call("read_double", 0, read_double(buf, pos, little_endian)) /\ pc' = pc
ReadString4 ==
    Call("read_string4", 0, read_string4(buf, pos, little_endian))
        /\ pc' = pc

Next ==
    \/ ReadBytes
    \/ ReadU8
    \/ PeekU8
    \/ Skip
    \/ ReadInt1
    \/ ReadInt2
    \/ ReadInt4
    \/ ReadInt8
    \/ ReadFloat
    \/ ReadDouble
    \/ ReadString4

Spec == Init /\ [][Next]_vars

(***************************************************************************)
(* SpecDecode: one buffer is decoded from its start, by GenericDecoder     *)
(* .decode or by SchemaDecoder(Root).decode_to_dict.  The buffers are      *)
(*   "enc"    the encoding of Values[i]                                    *)
(*   "cut"    its first j bytes, j less than its length                    *)
(*   "nest"   a value inside j containers, of the kinds Shapes[i] cycles    *)
(*   "cap"    a length field CapCases[i], then j more bytes                *)
(*   "maptag" a map of two entries, entry i with key tag j, value tag k    *)
(*   "type"   a header of type id j where Contexts[i] reads a value, then  *)
(*            k more bytes                                                 *)
(***************************************************************************)
Atoms ==
    << IntV(0), IntV(1), IntV(-1), IntV(127), IntV(128), IntV(-128), IntV(-129),
       IntV(32767), IntV(32768), IntV(-32769), IntV(2147483647), IntV(-2147483647 - 1),
       WideV(<<0, 0, 0, 0, 128, 0, 0, 0>>), WideV(<<255, 255, 255, 255, 127, 255, 255, 255>>),
       F32V(<<63, 128, 0, 0>>), F32V(<<79, 0, 0, 0>>), F32V(<<0, 0, 128, 63>>),
       F64V(<<63, 240, 0, 0, 0, 0, 0, 0>>), F64V(<<0, 0, 0, 0, 0, 0, 240, 63>>),
       F64V(<<68, 80, 0, 0, 0, 0, 0, 0>>),
       StrV(<<104, 105>>), StrV(<<>>), BytesV(<<1, 2>>), BytesV(<<>>) >>

Composites ==
    << ListV(<<>>), ListV(<<IntV(1), StrV(<<104, 105>>)>>),
       ListV(<<ListV(<<IntV(5)>>), StructV(<<<<0, IntV(6)>>>>)>>),
       MapV(<<>>), MapV(<< <<IntV(1), StrV(<<97>>)>>, <<IntV(2), StrV(<<98>>)>> >>),
       MapV(<< <<StrV(<<107>>), ListV(<<IntV(1)>>)>> >>),
       MapV(<< <<ListV(<<IntV(1), IntV(2)>>), IntV(3)>> >>),
       MapV(<< <<StructV(<< <<2, IntV(7)>>, <<10, IntV(8)>> >>), IntV(9)>> >>),
       MapV(<< <<MapV(<< <<IntV(10), IntV(1)>>, <<IntV(-3), ListV(<<IntV(2)>>)>>,
                         <<StrV(<<97>>), IntV(4)>> >>), IntV(5)>> >>),
       StructV(<<>>), StructV(<< <<0, IntV(1)>>, <<1, StructV(<<<<0, IntV(2)>>>>)>> >>),
       StructV(<< <<3, MapV(<< <<IntV(0), IntV(0)>> >>)>>, <<200, BytesV(<<9>>)>> >>) >>

Values ==
    [i \in 1..Len(Atoms) |-> StructV(<<<<0, Atoms[i]>>>>)]
    \o [i \in 1..Len(Atoms) |-> StructV(<< <<1, IntV(5)>>, <<15, Atoms[i]>> >>)]
    \o [i \in 1..Len(Composites) |-> StructV(<<<<0, Composites[i]>>>>)]
    \o [i \in 1..Len(Composites) |-> StructV(<< <<2, ListV(<<Composites[i]>>)>>, <<3, StrV(<<110>>)>> >>)]
    \o << StructV(<<>>),
          StructV(<< <<0, IntV(123)>>, <<1, StrV(<<104, 105>>)>> >>),
          StructV(<< <<0, IntV(5)>>, <<1, StructV(<< <<0, IntV(1)>>,
                         <<1, StructV(<<<<0, IntV(2)>>>>)>>, <<9, IntV(4)>> >>)>>,
                     <<2, ListV(<< StructV(<<<<0, IntV(1)>>>>), IntV(7) >>)>>,
                     <<5, IntV(9)>>, <<3, StrV(<<65>>)>> >>),
          StructV(<< <<1, StructV(<<<<1, StructV(<<<<0, IntV(300)>>>>)>>>>)>>,
                     <<255, IntV(1)>> >>) >>

\* The kinds of the containers of a nest, outermost first, cycling.
Shapes ==
    << <<"struct">>, <<"list">>, <<"map">>, <<"struct", "list", "map">> >>

KindAt(shape, level) == shape[((level - 1) % Len(shape)) + 1]

\* The tag a container's child is written with: a map's value has tag 1.
TagAt(shape, level) ==
    IF level > 1 /\ KindAt(shape, level - 1) = "map" THEN 1 ELSE 0

\* A container with one child, up to the child's header: a list has its
\* length 1, a map its length 1 and the key 7.
Opener(kind, tag) ==
    CASE kind = "struct" -> write_head(tag, JCE_STRUCT_BEGIN)
      [] kind = "list" -> write_head(tag, JCE_LIST) \o <<JCE_INT1, 1>>
      [] kind = "map" -> write_head(tag, JCE_MAP) \o <<JCE_INT1, 1, JCE_INT1, 7>>

Closer(kind) == IF kind = "struct" THEN write_head(0, JCE_STRUCT_END) ELSE <<>>

\* Levels lo..hi, level 1 the outermost.
RECURSIVE Openers(_, _, _)
Openers(shape, lo, hi) ==
    IF lo > hi THEN <<>>
    ELSE IF lo = hi THEN Opener(KindAt(shape, lo), TagAt(shape, lo))
    ELSE Openers(shape, lo, (lo + hi) \div 2) \o Openers(shape, ((lo + hi) \div 2) + 1, hi)

RECURSIVE Closers(_, _, _)
Closers(shape, lo, hi) ==
    IF lo > hi THEN <<>>
    ELSE IF lo = hi THEN Closer(KindAt(shape, lo))
    ELSE Closers(shape, ((lo + hi) \div 2) + 1, hi) \o Closers(shape, lo, (lo + hi) \div 2)

\* The integer 1 inside n containers, as a top-level field of tag 0.
NestBytes(shape, n) ==
    Openers(shape, 1, n) \o write_head(TagAt(shape, n + 1), JCE_INT1) \o <<1>>
        \o Closers(shape, 1, n)

\* Length fields over their cap, negative, or not an integer.
String4Lengths == <<-1, -2147483647 - 1, MAX_STRING_LENGTH + 1, 2147483647>>
CountFields(le) ==
    << <<JCE_INT1, 255>>,
       <<JCE_INT2>> \o Ordered(Bytes2(-2), le),
       <<JCE_INT4>> \o Ordered(Bytes4(MAX_CONTAINER_SIZE + 1), le),
       <<JCE_INT4>> \o Ordered(Bytes4(-1), le),
       <<JCE_INT8>> \o Ordered(<<0, 0, 0, 0, 0, 152, 150, 129>>, le),
       <<JCE_INT8>> \o Ordered(<<0, 0, 0, 1, 0, 0, 0, 0>>, le),
       <<JCE_INT8>> \o Ordered(<<255, 255, 255, 254, 0, 0, 0, 1>>, le),
       <<JCE_FLOAT>> \o Ordered(<<63, 128, 0, 0>>, le),
       <<JCE_DOUBLE>> \o Ordered(<<63, 240, 0, 0, 0, 0, 0, 0>>, le),
       <<JCE_STRING1, 1, 49>>,
       <<JCE_SIMPLE_LIST, JCE_INT1, JCE_ZERO_TAG>>,
       <<JCE_LIST, JCE_ZERO_TAG>>,
       <<JCE_MAP, JCE_ZERO_TAG>>,
       <<JCE_STRUCT_BEGIN, JCE_STRUCT_END>>,
       <<JCE_STRUCT_END>> >>
CountedKinds ==
    << <<JCE_LIST>>, <<JCE_MAP>>, <<JCE_SIMPLE_LIST, JCE_INT1>>,
       <<JCE_STRUCT_BEGIN, 16 + JCE_LIST>> >>
NumCountFields == Len(CountFields(FALSE))
NumCapCases == Len(String4Lengths) + Len(CountedKinds) * NumCountFields

CapBytes(i, le) ==
    IF i <= Len(String4Lengths)
    THEN write_head(0, JCE_STRING4) \o Ordered(Bytes4(String4Lengths[i]), le)
    ELSE LET n == i - Len(String4Lengths) - 1
         IN  CountedKinds[(n \div NumCountFields) + 1] \o CountFields(le)[(n % NumCountFields) + 1]

\* The bytes up to the header of type id t that a context reads as a value:
\* a top-level field, a list element, a map key, a map value, a struct field,
\* the length of a list.
Contexts(t) ==
    << <<t>>, <<JCE_LIST, JCE_INT1, 1, t>>, <<JCE_MAP, JCE_INT1, 1, t>>,
       <<JCE_MAP, JCE_INT1, 1, JCE_ZERO_TAG, 16 + t>>, <<JCE_STRUCT_BEGIN, t>>,
       <<JCE_LIST, t>>, <<32 + t>>, <<240 + t, 77>> >>
ContextKinds ==
    <<"top", "element", "key", "value", "field", "length", "top", "top">>
NumContexts == Len(ContextKinds)

Trailer == <<JCE_ZERO_TAG, JCE_STRUCT_END, 0, 1, 2, 3, 4, 5, 6, 7>>

MapTags == <<0, 1, 2, 14, 15, 255>>

MapEntry(kt, vt, n, le) ==
    encode_value(kt, IntV(n), le) \o encode_value(vt, StrV(<<118>>), le)

MapBytes(i, kt, vt, le) ==
    write_head(0, JCE_MAP) \o encode_int(0, IntV(2), le)
        \o MapEntry(IF i = 1 THEN kt ELSE 0, IF i = 1 THEN vt ELSE 1, 1, le)
        \o MapEntry(IF i = 2 THEN kt ELSE 0, IF i = 2 THEN vt ELSE 1, 2, le)

InputBytes(in, le) ==
    CASE in.fam = "enc" -> encode(Values[in.i], le)
      [] in.fam = "cut" -> SubSeq(encode(Values[in.i], le), 1, in.j)
      [] in.fam = "nest" -> NestBytes(Shapes[in.i], in.j)
      [] in.fam = "cap" -> CapBytes(in.i, le) \o Pattern(Trailer, in.j)
      [] in.fam = "maptag" -> MapBytes(in.i, MapTags[in.j], MapTags[in.k], le)
      [] in.fam = "type" -> Contexts(in.j)[in.i] \o Pattern(Trailer, in.k)

DecodeInputs(le) ==
    { Input("enc", i, 0, 0) : i \in 1..Len(Values) }
    \cup UNION { { Input("cut", i, j, 0) : j \in 0..(Len(encode(Values[i], le)) - 1) } :
                   i \in 1..Len(Values) }
    \cup { Input("nest", i, j, 0) : i \in 1..Len(Shapes), j \in 0..MaxNest }
    \cup { Input("cap", i, j, 0) : i \in 1..NumCapCases, j \in 0..MaxTrail }
    \cup { Input("maptag", i, j, k) : i \in 1..2, j \in 1..Len(MapTags), k \in 1..Len(MapTags) }
    \cup { Input("type", i, j, k) : i \in 1..NumContexts, j \in 0..15, k \in 0..MaxTrail }

InitDecode ==
    /\ little_endian \in BOOLEAN
    /\ inp \in DecodeInputs(little_endian)
    /\ buf = InputBytes(inp, little_endian)
    /\ pos = 0
    /\ last = NoCall
    /\ pc = "start"

Decode ==
    /\ pc = "start"
    /\ Call("decode", 0, decode(buf, pos, little_endian))
    /\ pc' = "done"

DecodeToDict ==
    /\ pc = "start"
    /\ Call("decode_to_dict", 0, decode_to_dict(buf, pos, little_endian, "Root"))
    /\ pc' = "done"

NextDecode ==
    \/ Decode
    \/ DecodeToDict

SpecDecode == InitDecode /\ [][NextDecode]_vars

(***************************************************************************)
(* SpecHeader: a header of tag inp.i and type id inp.j is written, then    *)
(* read back by _read_head.  The tag byte holds 0..255; what the writer    *)
(* does with a larger tag is not fixed by the wire format: it refuses it,  *)
(* or it writes the tag's low byte.                                        *)
(***************************************************************************)
InitHeader ==
    /\ inp \in { Input("head", tag, type_id, 0) : tag \in 0..MaxTag, type_id \in 0..13 }
    /\ little_endian \in BOOLEAN
    /\ buf = <<>>
    /\ pos = 0
    /\ last = NoCall
    /\ pc = "start"

WriteHead ==
    /\ pc = "start"
    /\ inp.i <= 255
    /\ buf' = write_head(inp.i, inp.j)
    /\ pc' = "written"
    /\ UNCHANGED <<pos, little_endian, last, inp>>

WriteHeadRefused ==
    /\ pc = "start"
    /\ inp.i > 255
    /\ pc' = "refused"
    /\ UNCHANGED <<buf, pos, little_endian, last, inp>>

WriteHeadLowByte ==
    /\ pc = "start"
    /\ inp.i > 255
    /\ buf' = <<240 + inp.j, inp.i % 256>>
    /\ pc' = "written"
    /\ UNCHANGED <<pos, little_endian, last, inp>>

ReadHead ==
    /\ pc = "written"
    /\ Call("read_head", 0, read_head(buf, pos))
    /\ pc' = "done"

NextHeader ==
    \/ WriteHead
    \/ WriteHeadRefused
    \/ WriteHeadLowByte
    \/ ReadHead

SpecHeader == InitHeader /\ [][NextHeader]_vars

(***************************************************************************)
(* SpecLoads: loads(data, JceDict, option, bytes_mode) of a struct whose   *)
(* byte values are Blobs[i] and Blobs[j]:                                  *)
(*     {0: Blobs[i], 1: [Blobs[j], {Blobs[j]: Blobs[i]}]}                  *)
(* in each bytes_mode, with little and with ample stack left.              *)
(***************************************************************************)
Blobs ==
    << <<>>,                          \* empty
       <<104, 101, 108, 108, 111>>,   \* "hello"
       <<0, 1, 2>>,                   \* unsafe text, partial as JCE
       <<0, 1>>,                      \* unsafe text, {0: 1} as JCE
       <<48, 65>>,                    \* "0A", also {3: 65} as JCE
       <<255>>,                       \* not UTF-8, type nibble 15
       <<13, 1>>,                     \* a simple list of a non-byte type
       <<13, 0, 0, 2, 0, 1>>,         \* {0: b"\x00\x01"} as JCE
       Pattern(<<138>>, RECURSION_LIMIT + 1),   \* not UTF-8, 101 nested structs
       <<195, 169>>,                  \* U+00E9
       <<194, 128>>,                  \* U+0080, a control
       <<200>>,                       \* a cut UTF-8 sequence
       <<104, 9, 105>>,               \* "h\ti"
       <<11>>,                        \* STRUCT_END alone
       <<228, 184, 173>>,             \* U+4E2D
       <<192, 128>> >>                \* overlong U+0000, {12: -128} as JCE

Modes == {"raw", "string", "auto"}

String1(tag, bs) == <<tag * 16 + JCE_STRING1, Len(bs)>> \o bs

BlobBytes(i, j) ==
    String1(0, Blobs[i])
        \o <<16 + JCE_LIST, JCE_INT1, 2>>
        \o String1(0, Blobs[j])
        \o <<JCE_MAP, JCE_INT1, 1>> \o String1(0, Blobs[j]) \o String1(1, Blobs[i])

\* The frames convert_bytes_recursive takes to walk a value.
RECURSIVE Frames(_)
RECURSIVE MaxFrames(_, _)
MaxFrames(xs, pairs) ==
    IF xs = <<>> THEN 0
    ELSE LET h == Frames(IF pairs THEN Head(xs)[2] ELSE Head(xs))
             t == MaxFrames(Tail(xs), pairs)
         IN  IF h > t THEN h ELSE t
Frames(x) ==
    CASE x.k \in {"struct", "map"} -> 1 + MaxFrames(x.v, TRUE)
      [] x.k = "list" -> 1 + MaxFrames(x.v, FALSE)
      [] OTHER -> 1

\* The stack left when loads is called: enough to walk the decoded value,
\* and up to MaxStack frames more for the nested reparses.
FramesNeeded(r) == IF r.st = "ok" THEN Frames(r.val) ELSE 1
Stacks(b, le) ==
    UNION { FramesNeeded(r)..(FramesNeeded(r) + MaxStack) : r \in {decode(b, 0, le)} }

InitLoads ==
    /\ little_endian \in BOOLEAN
    /\ \E i \in 1..Len(Blobs), j \in 1..Len(Blobs), mode \in Modes :
          \E stack \in Stacks(BlobBytes(i, j), little_endian) :
              inp = [fam |-> "blob", i |-> i, j |-> j, k |-> 0,
                     mode |-> mode, stack |-> stack]
    /\ buf = BlobBytes(inp.i, inp.j)
    /\ pos = 0
    /\ last = NoCall
    /\ pc = "start"

Loads ==
    /\ pc = "start"
    /\ Call("loads", 0, loads(buf, little_endian, inp.mode, inp.stack))
    /\ pc' = "done"

NextLoads == Loads

SpecLoads == InitLoads /\ [][NextLoads]_vars

(***************************************************************************)
(* SpecField: one field of a stream, between two fields the Root schema    *)
(* knows or alone.  The stream is decoded whole by the generic and by the  *)
(* schema decoder, or its first header is read and the value after it      *)
(* read or skipped.  In the "items" streams the value is the one element  *)
(* of the list[Inner] field items.                                         *)
(***************************************************************************)
\* One call of _read_value, of _skip_value, by a decoder whose reader is at p.
read_value_at(b, p, le, type_id) ==
    Result(Run(b, le, read_value(b, le, Config(p), type_id), MaxStepsLog))

skip_value_at(b, p, le, type_id) ==
    Result(Run(b, le, skip_value(b, le, Config(p), type_id), MaxStepsLog))

\* A type id and the bytes after the header: one value of every wire type,
\* containers in containers, structs with tags the Inner schema does not
\* know, and values one path takes and the other refuses.
WireValues(le) ==
    << <<JCE_ZERO_TAG, <<>>>>,
       <<JCE_INT1, <<5>>>>,
       <<JCE_INT2, Ordered(<<1, 2>>, le)>>,
       <<JCE_INT4, Ordered(<<0, 1, 2, 3>>, le)>>,
       <<JCE_INT8, Ordered(<<0, 0, 0, 0, 0, 0, 1, 0>>, le)>>,
       <<JCE_FLOAT, Ordered(<<63, 128, 0, 0>>, le)>>,
       <<JCE_DOUBLE, Ordered(<<63, 240, 0, 0, 0, 0, 0, 0>>, le)>>,
       <<JCE_STRING1, <<2, 104, 105>>>>,
       <<JCE_STRING4, Ordered(<<0, 0, 0, 1>>, le) \o <<65>>>>,
       <<JCE_LIST, <<0, 2, 0, 1, 12>>>>,
       <<JCE_LIST, <<12>>>>,
       <<JCE_MAP, <<0, 1, 0, 1, 22, 1, 66>>>>,
       <<JCE_STRUCT_BEGIN, <<0, 1, 11>>>>,
       <<JCE_STRUCT_BEGIN, <<0, 1, 26, 0, 2, 11, 118, 1, 67, 11>>>>,
       <<JCE_STRUCT_BEGIN, <<121, 0, 1, 10, 11, 26, 122, 11, 11, 11>>>>,
       <<JCE_SIMPLE_LIST, <<0, 0, 2, 7, 8>>>>,
       <<JCE_LIST, <<0, 1, 10, 0, 3, 11>>>>,
       <<JCE_LIST, <<0, 2, 10, 11, 0, 4>>>>,
       <<JCE_LIST, <<0, 1, 9, 0, 1, 8, 0, 1, 0, 1, 16, 2>>>>,
       <<JCE_STRUCT_BEGIN, <<11>>>>,
       <<JCE_MAP, <<0, 1, 32, 1, 22, 1, 66>>>>,
       <<JCE_SIMPLE_LIST, <<1, 0, 1, 7>>>>,
       <<JCE_LIST, <<0, 1, 11>>>>,
       <<14, <<>>>>,
       <<JCE_STRUCT_BEGIN, <<0, 1>>>>,
       <<JCE_STRING1, <<5, 104>>>>,
       <<JCE_STRUCT_BEGIN, <<8, 0, 1, 0, 1, 22, 1, 66, 41, 0, 1, 10, 11, 11>>>>,
       <<JCE_STRUCT_BEGIN, <<26, 26, 26, 0, 9, 11, 11, 11, 54, 1, 65, 11>>>> >>
NumWireValues == Len(WireValues(FALSE))

\* Tags of the Root schema, and two it does not have.
FieldTags == <<0, 1, 2, 3, 7, 20>>

FieldHead(tag, type_id) ==
    IF tag < 15 THEN <<tag * 16 + type_id>> ELSE <<240 + type_id, tag>>

\* The fields a = 5 before and name = "hi" after.
Before(k) == IF k = 1 THEN <<JCE_INT1, 5>> ELSE <<>>
After(k) == IF k = 1 THEN <<48 + JCE_STRING1, 2, 104, 105>> ELSE <<>>

WireField(in, le) ==
    FieldHead(FieldTags[in.j], WireValues(le)[in.i][1]) \o WireValues(le)[in.i][2]

\* Bytes a decoder fails on or stops at, as the next field of a struct: a
\* cut INT4, type id 14, a negative STRING4 length, a cut INT4 of tag 7,
\* the end of the buffer, a cut header, a map key of tag 1, a cut INT4
\* inside a struct, all of tag 0 but the fourth.
FailingFields ==
    << <<JCE_INT4, 0>>, <<14>>, <<JCE_STRING4, 255, 255, 255, 255>>,
       <<112 + JCE_INT4, 0>>, <<>>, <<240>>, <<JCE_MAP, 0, 1, 16, 1>>,
       <<JCE_STRUCT_BEGIN, JCE_INT4, 0>> >>
InKnownField(i) == i \in {1, 2, 3, 7, 8}

\* The failing field n structs deep: in inner.child. ... .child of Root, or
\* in the same chain under the first element of items.
NestedFailure(in) ==
    (IF in.k = 1 THEN <<32 + JCE_LIST, JCE_INT1, 1, JCE_STRUCT_BEGIN>> ELSE <<>>)
        \o Pattern(<<16 + JCE_STRUCT_BEGIN>>, in.j) \o FailingFields[in.i]

\* The wire value as the one element of items, a list[Inner] field of Root.
ItemsField(in, le) ==
    <<32 + JCE_LIST, JCE_INT1, 1>>
        \o FieldHead(0, WireValues(le)[in.i][1]) \o WireValues(le)[in.i][2]

FieldBytes(in, le) ==
    IF in.fam = "wire" THEN Before(in.k) \o WireField(in, le) \o After(in.k)
    ELSE IF in.fam = "items" THEN Before(in.k) \o ItemsField(in, le) \o After(in.k)
    ELSE IF in.fam = "loc" THEN NestedFailure(in)
    ELSE InputBytes(in, le)

FieldInputs(le) ==
    { Input("wire", i, j, k) : i \in 1..NumWireValues, j \in 1..Len(FieldTags), k \in 0..1 }
    \cup { Input("type", 1, j, k) : j \in 0..15, k \in 0..MaxTrail }
    \cup { Input("enc", i, 0, 0) : i \in 1..Len(Values) }
    \cup { Input("cap", i, j, 0) : i \in 1..NumCapCases, j \in 0..MaxTrail }
    \cup { Input("loc", i, j, k) : i \in 1..Len(FailingFields), j \in 0..MaxNest, k \in 0..1 }
    \cup { Input("items", i, 0, k) : i \in 1..NumWireValues, k \in 0..1 }

InitField ==
    /\ little_endian \in BOOLEAN
    /\ inp \in FieldInputs(little_endian)
    /\ buf = FieldBytes(inp, little_endian)
    /\ pos = 0
    /\ last = NoCall
    /\ pc = "start"

\* GenericDecoder._read_head
ReadFieldHead ==
    /\ pc = "start"
    /\ LET h == read_head(buf, pos)
       IN  Call("read_head", 0, h)
    /\ pc' = IF read_head(buf, pos).st = "ok" THEN "head" ELSE "done"

\* GenericDecoder._read_value(type_id), the header just read.
ReadValue ==
    /\ pc = "head"
    /\ Call("read_value", last.val[2], read_value_at(buf, pos, little_endian, last.val[2]))
    /\ pc' = "done"

\* GenericDecoder._skip_value(type_id), the header just read.
SkipValue ==
    /\ pc = "head"
    /\ Call("skip_value", last.val[2], skip_value_at(buf, pos, little_endian, last.val[2]))
    /\ pc' = "done"

NextField ==
    \/ Decode
    \/ DecodeToDict
    \/ ReadFieldHead
    \/ ReadValue
    \/ SkipValue

SpecField == InitField /\ [][NextField]_vars


(***************************************************************************)
(* SpecNodes: one buffer decoded by the NodeDecoder, with inp.stack calls  *)
(* left to the interpreter, or by the generic or the schema decoder.       *)
(***************************************************************************)
\* Frames to spare: too few for the deeper inputs, or enough for all.
NodeStacks == {MaxStack, MaxNest + MaxStack}

NodeInputs(le) ==
    { [fam |-> in.fam, i |-> in.i, j |-> in.j, k |-> in.k, stack |-> s] :
        in \in DecodeInputs(le), s \in NodeStacks }

InitNodes ==
    /\ little_endian \in BOOLEAN
    /\ inp \in NodeInputs(little_endian)
    /\ buf = InputBytes(inp, little_endian)
    /\ pos = 0
    /\ last = NoCall
    /\ pc = "start"

DecodeNodes ==
    /\ pc = "start"
    /\ Call("node_decode", 0, node_decode(buf, little_endian, inp.stack))
    /\ pc' = "done"

NextNodes ==
    \/ DecodeNodes
    \/ Decode
    \/ DecodeToDict

SpecNodes == InitNodes /\ [][NextNodes]_vars


(***************************************************************************)
(* SpecSchema: a struct class with the fields a, b and c is declared, its  *)
(* fields given the tags inp.i, inp.j and inp.k, and a SchemaDecoder is    *)
(* built for it.                                                           *)
(***************************************************************************)
DeclTags == {0, 1, 2, 3}

Declared(in) == << Field("a", in.i, "", ""), Field("b", in.j, "", ""),
                   Field("c", in.k, "", "") >>

\* sorted(..., key=lambda item: item[1].id): a stable sort by tag.
RECURSIVE insert_by_id(_, _)
insert_by_id(fs, f) ==
    IF fs = <<>> THEN <<f>>
    ELSE IF f.tag < Head(fs).tag THEN <<f>> \o fs
    ELSE <<Head(fs)>> \o insert_by_id(Tail(fs), f)

RECURSIVE sorted_by_id(_, _)
sorted_by_id(fs, acc) ==
    IF fs = <<>> THEN acc ELSE sorted_by_id(Tail(fs), insert_by_id(acc, Head(fs)))

\* StructMeta._prepare_fields: every field with an id is taken, then the
\* fields are sorted by id.
prepare_fields(fs) == sorted_by_id(fs, <<>>)

\* The dict comprehension over the fields: one entry per tag.
tag_index(fs) ==
    [t \in { fs[n].tag : n \in 1..Len(fs) } |-> field_map(fs, t)[1].name]

InitSchema ==
    /\ little_endian \in BOOLEAN
    /\ inp \in { Input("schema", i, j, k) : i \in DeclTags, j \in DeclTags, k \in DeclTags }
    /\ buf = <<>>
    /\ pos = 0
    /\ last = NoCall
    /\ pc = "start"

\* StructMeta.__new__: __tars_fields__ and __tars_tag_map__.
Declare ==
    /\ pc = "start"
    /\ last' = [NoCall EXCEPT !.op = "declare",
                              !.val = <<prepare_fields(Declared(inp)),
                                        tag_index(prepare_fields(Declared(inp)))>>]
    /\ pc' = "declared"
    /\ UNCHANGED <<buf, pos, little_endian, inp>>

\* SchemaDecoder.__init__: _fields and _field_map.
BuildFieldMap ==
    /\ pc = "declared"
    /\ last' = [NoCall EXCEPT !.op = "field_map",
                              !.val = <<last.val[1], tag_index(last.val[1])>>]
    /\ pc' = "built"
    /\ UNCHANGED <<buf, pos, little_endian, inp>>

NextSchema ==
    \/ Declare
    \/ BuildFieldMap

SpecSchema == InitSchema /\ [][NextSchema]_vars

(***************************************************************************)
(* SpecAssoc: the pairs {AssocTags[j][1]: a, AssocTags[j][2]: b} are       *)
(* written as a struct-shorthand association (inp.k = 0) or as a plain     *)
(* association (inp.k = 1), then read back by loads or by the generic      *)
(* decoder.                                                                *)
(***************************************************************************)
AssocValues ==
    << IntV(123), IntV(0), IntV(-300), StrV(<<104, 105>>), StrV(<<97>>) >>
AssocTags == << <<0, 1>>, <<1, 0>>, <<2, 20>>, <<0, 255>> >>

AssocPairs(in) ==
    << <<AssocTags[in.j][1], AssocValues[((in.i - 1) \div Len(AssocValues)) + 1]>>,
       <<AssocTags[in.j][2], AssocValues[((in.i - 1) % Len(AssocValues)) + 1]>> >>

\* The two forms of the pairs: a struct keyed by tag, a map keyed by int.
AsStruct(in) == StructV(AssocPairs(in))
AsMap(in) == MapV([n \in 1..2 |-> <<IntV(AssocPairs(in)[n][1]), AssocPairs(in)[n][2]>>])

\* dumps(StructDict(pairs)) and dumps(dict(pairs)): a dict at top level is
\* the field of tag 0.
dumps_struct(in, le) == encode(AsStruct(in), le)
dumps_map(in, le) == encode_value(0, AsMap(in), le)

InitAssoc ==
    /\ little_endian \in BOOLEAN
    /\ inp \in { Input("assoc", i, j, k) :
                   i \in 1..(Len(AssocValues) * Len(AssocValues)),
                   j \in 1..Len(AssocTags), k \in 0..1 }
    /\ buf = <<>>
    /\ pos = 0
    /\ last = NoCall
    /\ pc = "start"

DumpsStruct ==
    /\ pc = "start"
    /\ inp.k = 0
    /\ buf' = dumps_struct(inp, little_endian)
    /\ pc' = "written"
    /\ UNCHANGED <<pos, little_endian, last, inp>>

DumpsMap ==
    /\ pc = "start"
    /\ inp.k = 1
    /\ buf' = dumps_map(inp, little_endian)
    /\ pc' = "written"
    /\ UNCHANGED <<pos, little_endian, last, inp>>

\* loads(data): target JceDict, bytes_mode auto.
LoadsBack ==
    /\ pc = "written"
    /\ Call("loads", 0, loads(buf, little_endian, "auto", RECURSION_LIMIT))
    /\ pc' = "done"

\* GenericDecoder(reader).decode()
DecodeBack ==
    /\ pc = "written"
    /\ Call("decode", 0, decode(buf, pos, little_endian))
    /\ pc' = "done"

NextAssoc ==
    \/ DumpsStruct
    \/ DumpsMap
    \/ LoadsBack
    \/ DecodeBack

SpecAssoc == InitAssoc /\ [][NextAssoc]_vars

(***************************************************************************)
(* SpecSteps: a decode taken one step at a time.  A step runs the call on  *)
(* top of the stack from where it resumes to its next call or return, or   *)
(* unwinds one frame of a raised exception.  last.val holds the            *)
(* configuration c and, for every frame, the position at which its loop    *)
(* last tested its condition (marks, -1 before the first test); last.arg   *)
(* counts the steps taken.  What generic decoding returns is then given to *)
(* the byte-content classifier, as loads does.                             *)
(***************************************************************************)
\* The calls the interpreter allows a NodeDecoder: more than any input needs.
AmpleStack == MaxNest + MaxStack

\* The nests that are stepped through: shallow ones, and the deepest.
StepDepths == (0..MaxStack) \cup {RECURSION_LIMIT, MaxNest}

\* Nests that a schema decode of Root does not read with _read_value:
\* 1: n lists, the outermost under tag 9, which Root does not declare;
\* 2: n structs under tag 1, Root.inner and then Inner.child all the way.
DeepBytes(i, n) ==
    IF i = 1
    THEN write_head(9, JCE_LIST) \o <<JCE_INT1, 1>> \o NestBytes(<<"list">>, n - 1)
    ELSE Pattern(write_head(1, JCE_STRUCT_BEGIN), n) \o <<JCE_INT1, 5>>
            \o Pattern(write_head(0, JCE_STRUCT_END), n)

StepInputs(le) ==
    { in \in DecodeInputs(le) : in.fam = "nest" => in.j \in StepDepths }
    \cup { Input("blob", i, i, 0) : i \in 1..Len(Blobs) }
    \cup { Input("deep", i, j, 0) : i \in 1..2, j \in StepDepths \ {0} }

StepBytes(in, le) ==
    IF in.fam = "blob" THEN BlobBytes(in.i, in.j)
    ELSE IF in.fam = "deep" THEN DeepBytes(in.i, in.j)
    ELSE InputBytes(in, le)

\* The frames whose next step tests the condition of their loop.
AtLoopHead(f) ==
    CASE f.fn \in {"decode", "decode_to_dict", "node_decode",
                   "read_struct", "skip_struct", "node_struct"} -> TRUE
      [] f.fn \in {"read_list", "skip_list", "node_list", "read_list_of_structs"} ->
            f.ph \in {"size", "length", "item"}
      [] f.fn \in {"read_map", "skip_map", "node_map"} -> f.ph \in {"length", "val"}
      [] OTHER -> FALSE

\* No more steps than this are counted.
StepCap(b) == 4 * Len(b) + 5

Started(op, f) ==
    [NoCall EXCEPT !.op = op,
                   !.val = [c |-> Push(Config(0), f), marks |-> <<-1>>,
                            from |-> -1, at |-> 0]]

InitSteps ==
    /\ little_endian \in BOOLEAN
    /\ inp \in StepInputs(little_endian)
    /\ buf = StepBytes(inp, little_endian)
    /\ pos = 0
    /\ last = NoCall
    /\ pc = "start"

\* GenericDecoder(reader, option).decode() is called.
CallDecode ==
    /\ pc = "start"
    /\ last' = Started("decode", Frame("decode", "start"))
    /\ pc' = "running"
    /\ UNCHANGED <<buf, pos, little_endian, inp>>

\* SchemaDecoder(reader, Root, option).decode_to_dict() is called.
CallDecodeToDict ==
    /\ pc = "start"
    /\ last' = Started("decode_to_dict",
                       [Frame("decode_to_dict", "start") EXCEPT !.schema = "Root"])
    /\ pc' = "running"
    /\ UNCHANGED <<buf, pos, little_endian, inp>>

\* NodeDecoder(reader, option).decode() is called.
CallNodeDecode ==
    /\ pc = "start"
    /\ last' = Started("node_decode", NodeFrame("node_decode", NoneV))
    /\ pc' = "running"
    /\ UNCHANGED <<buf, pos, little_endian, inp>>

\* The marks after a step from c to c2: the running frame's when it tests
\* its loop, none for the frames that are gone, -1 for the new ones.
Marked(marks, c, c2) ==
    LET d == Len(c.stack)
        m == IF c.mode = "run" /\ AtLoopHead(Top(c)) THEN [marks EXCEPT ![d] = c.pos]
             ELSE marks
    IN  [n \in 1..Len(c2.stack) |-> IF n <= d THEN m[n] ELSE -1]

Stepped(c2) ==
    LET c == last.val.c
        head == c.mode = "run" /\ AtLoopHead(Top(c))
    IN  /\ last' = [last EXCEPT
                       !.arg = IF @ < StepCap(buf) THEN @ + 1 ELSE @,
                       !.val = [c |-> c2, marks |-> Marked(last.val.marks, c, c2),
                                from |-> IF head THEN last.val.marks[Len(c.stack)]
                                         ELSE last.val.from,
                                at |-> IF head THEN c.pos ELSE last.val.at]]
        /\ pos' = c2.pos
        /\ pc' = pc
        /\ UNCHANGED <<buf, little_endian, inp>>

\* The running call goes on to its next call or to its return.
Resume ==
    /\ pc = "running"
    /\ last.val.c.stack # <<>>
    /\ last.val.c.mode = "run"
    /\ \E c2 \in {node_step(buf, little_endian, last.val.c, AmpleStack)} : Stepped(c2)

\* A raised exception leaves one frame.
Unwind ==
    /\ pc = "running"
    /\ last.val.c.stack # <<>>
    /\ last.val.c.mode = "raise"
    /\ \E c2 \in {node_unwind(last.val.c)} : Stepped(c2)

\* The outermost call has returned or raised.
Finish ==
    /\ pc = "running"
    /\ last.val.c.stack = <<>>
    /\ \E r \in {Result(last.val.c)} :
          /\ last' = [last EXCEPT !.st = r.st, !.val = r.val, !.loc = r.loc]
          /\ pc' = IF last.op = "decode" /\ r.st = "ok" THEN "returned" ELSE "done"
    /\ UNCHANGED <<buf, pos, little_endian, inp>>

\* loads: convert_bytes_recursive(result, mode="auto", option)
Classify ==
    /\ pc = "returned"
    /\ \E r \in {loads_convert([st |-> last.st, pos |-> pos, val |-> last.val,
                                loc |-> last.loc],
                               little_endian, "auto", AmpleStack)} :
          last' = [last EXCEPT !.op = "loads", !.st = r.st, !.val = r.val]
    /\ pc' = "done"
    /\ UNCHANGED <<buf, pos, little_endian, inp>>

NextSteps ==
    \/ CallDecode
    \/ CallDecodeToDict
    \/ CallNodeDecode
    \/ Resume
    \/ Unwind
    \/ Finish
    \/ Classify

\* The interpreter runs the call on: a step that can be taken is taken.
\* A step exists in every state but a finished one and every step changes
\* the state, so weak fairness of the steps, WF_vars(NextSteps), is this:
Running == []<>(pc = "done") \/ []<><<NextSteps>>_vars

SpecSteps == InitSteps /\ [][NextSteps]_vars /\ Running

(***************************************************************************)
(***************************************************************************)
(* SpecFreeze: _read_map with the freeze cache.  _freeze_key keeps what it *)
(* froze in self._freeze_cache under id(obj), and the key object is        *)
(* released as soon as its frozen form is bound to `key`.  id(obj) is      *)
(* unique among the objects alive together only: a later key may be given  *)
(* any id that no live object holds, a released key's included.            *)
(***************************************************************************)
\* The ids the dicts and lists of a decode can be given.
MaxIds == 3
Ids == 1..MaxIds

\* self._freeze_cache = {}
NotCached == [k |-> "unset", v |-> <<>>]
NoCache == [i \in Ids |-> NotCached]

\* The values a list or a struct holds, in its order.
Children(x) ==
    IF x.k = "list" THEN x.v ELSE [n \in 1..Len(x.v) |-> x.v[n][2]]

\* The dicts and lists of a decoded value, itself included.
RECURSIVE Objects(_)
RECURSIVE ObjectsOfAll(_)
ObjectsOfAll(vs) ==
    IF vs = <<>> THEN 0 ELSE Objects(Head(vs)) + ObjectsOfAll(Tail(vs))

Objects(x) ==
    IF x.k \in {"list", "struct"} THEN 1 + ObjectsOfAll(Children(x)) ELSE 0

\* _freeze_key(obj), ids: the ids of obj's dicts and lists in the order
\* they were made (a container before its items).
RECURSIVE freeze_cached(_, _, _)
RECURSIVE FreezeEach(_, _, _)
FreezeEach(vs, ids, cache) ==
    IF vs = <<>> THEN [vals |-> <<>>, cache |-> cache]
    ELSE LET n == Objects(Head(vs))
             h == freeze_cached(Head(vs), SubSeq(ids, 1, n), cache)
             t == FreezeEach(Tail(vs), SubSeq(ids, n + 1, Len(ids)), h.cache)
         IN  [vals |-> <<h.val>> \o t.vals, cache |-> t.cache]

freeze_cached(obj, ids, cache) ==
    IF obj.k \notin {"list", "struct"} THEN [val |-> obj, cache |-> cache]
    ELSE IF cache[ids[1]].k # "unset" THEN [val |-> cache[ids[1]], cache |-> cache]
    ELSE LET r == FreezeEach(Children(obj), Tail(ids), cache)
             items == SortItems([n \in 1..Len(obj.v) |-> <<obj.v[n][1], r.vals[n]>>],
                                <<>>, FALSE)
             result ==
                 IF obj.k = "list" THEN TupleV(r.vals)
                 ELSE TupleV([n \in 1..Len(items) |->
                                 TupleV(<<IntV(items[n][1]), items[n][2]>>)])
         IN  [val |-> result, cache |-> [r.cache EXCEPT ![ids[1]] = result]]

\* key == other of two dict keys: tuples item by item, an int never a tuple.
RECURSIVE SameKey(_, _)
SameKey(a, b) ==
    IF a.k # b.k THEN FALSE
    ELSE IF a.k = "tuple"
         THEN /\ Len(a.v) = Len(b.v)
              /\ \A n \in 1..Len(a.v) : SameKey(a.v[n], b.v[n])
    ELSE a.v = b.v

\* result[key] = val
RECURSIVE PutKey(_, _, _)
PutKey(entries, key, value) ==
    IF entries = <<>> THEN <<<<key, value>>>>
    ELSE IF SameKey(Head(entries)[1], key)
         THEN <<<<Head(entries)[1], value>>>> \o Tail(entries)
    ELSE <<Head(entries)>> \o PutKey(Tail(entries), key, value)

\* The ids n objects alive together can have.
IdSeqs(n) == { s \in [1..n -> Ids] : \A a, b \in 1..n : s[a] = s[b] => a = b }

\* Composite keys on the wire, tag 0: [1], [2], [[1]], {0: 1, 1: 2} in both
\* field orders, {0: 2}, {0: [1]}, {10: 1, 9: 2} in both field orders.
KeyWires ==
    << <<9, 0, 1, 0, 1>>,
       <<9, 0, 1, 0, 2>>,
       <<9, 0, 1, 9, 0, 1, 0, 1>>,
       <<10, 0, 1, 16, 2, 11>>,
       <<10, 16, 2, 0, 1, 11>>,
       <<10, 0, 2, 11>>,
       <<10, 9, 0, 1, 0, 1, 11>>,
       <<10, 160, 1, 144, 2, 11>>,
       <<10, 144, 2, 160, 1, 11>> >>

NumKeyWires == Len(KeyWires)

\* A map field of three entries keyed by the composite keys i, j, k; the
\* values are 5, 6, 7.
KeysField(in) ==
    <<8, 0, 3>> \o KeyWires[in.i] \o <<16, 5>> \o KeyWires[in.j] \o <<16, 6>>
                \o KeyWires[in.k] \o <<16, 7>>

FreezeInputs ==
    { Input("keys", i, j, k) : i \in 1..NumKeyWires, j \in 1..NumKeyWires,
                               k \in 1..NumKeyWires }

InitFreeze ==
    /\ little_endian \in BOOLEAN
    /\ inp \in FreezeInputs
    /\ buf = KeysField(inp)
    /\ pos = 0
    /\ last = NoCall
    /\ pc = "start"

\* GenericDecoder(reader, option): the field's header is read, _read_map
\* reads the length.
ReadMapLength ==
    /\ pc = "start"
    /\ \E h \in {read_head(buf, pos)} :
       \E lh \in {read_head(buf, h.pos)} :
       \E n \in {read_value_at(buf, lh.pos, little_endian, lh.val[2])} :
             /\ h.st = "ok" /\ h.val[2] = JCE_MAP /\ n.st = "ok"
             /\ last' = [NoCall EXCEPT !.op = "read_map", !.arg = n.val.v[1],
                                       !.val = [cache |-> NoCache, result |-> <<>>,
                                                keys |-> <<>>]]
             /\ pos' = n.pos
    /\ pc' = "entries"
    /\ UNCHANGED <<buf, little_endian, inp>>

\* One turn of the loop of _read_map: key, value, _freeze_key, result[key] = val.
ReadEntry ==
    /\ pc = "entries"
    /\ last.arg > 0
    /\ \E kh \in {read_head(buf, pos)} :
       \E key \in {read_value_at(buf, kh.pos, little_endian, kh.val[2])} :
       \E vh \in {read_head(buf, key.pos)} :
       \E val \in {read_value_at(buf, vh.pos, little_endian, vh.val[2])} :
       \E ids \in IdSeqs(Objects(key.val)) :
       \E fr \in {freeze_cached(key.val, ids, last.val.cache)} :
          /\ map_key_tag_ok(kh.val[1]) /\ map_value_tag_ok(vh.val[1])
          /\ key.st = "ok" /\ val.st = "ok"
          /\ last' = [last EXCEPT
                         !.arg = @ - 1,
                         !.val = [cache |-> fr.cache,
                                  result |-> PutKey(last.val.result, fr.val, val.val),
                                  keys |-> Append(last.val.keys,
                                                  <<key.val, fr.val, ids>>)]]
          /\ pos' = val.pos
    /\ pc' = pc
    /\ UNCHANGED <<buf, little_endian, inp>>

\* return result
ReturnMap ==
    /\ pc = "entries"
    /\ last.arg = 0
    /\ pc' = "done"
    /\ UNCHANGED <<buf, pos, little_endian, last, inp>>

NextFreeze ==
    \/ ReadMapLength
    \/ ReadEntry
    \/ ReturnMap

SpecFreeze == InitFreeze /\ [][NextFreeze]_vars

(***************************************************************************)
(* SpecTags: GenericDecoder.decode over three fields written one after the *)
(* other, at top level or inside a struct, with repeated tags, tags out of *)
(* order and STRUCT_END headers among them.                                *)
(***************************************************************************)
WireOf(tag, wire, val, end) == [tag |-> tag, wire |-> wire, val |-> val, end |-> end]

\* A field as written (tag, header and payload) and the value it carries;
\* end: a STRUCT_END header, in the one-byte and in the two-byte form.
TagFields ==
    << WireOf(0, <<0, 1>>, IntV(1), FALSE),
       WireOf(0, <<0, 2>>, IntV(2), FALSE),
       WireOf(1, <<22, 1, 97>>, BytesV(<<97>>), FALSE),
       WireOf(1, <<28>>, IntV(0), FALSE),
       WireOf(20, <<240, 20, 3>>, IntV(3), FALSE),
       WireOf(3, <<240, 3, 4>>, IntV(4), FALSE),
       WireOf(3, <<48, 5>>, IntV(5), FALSE),
       WireOf(0, <<11>>, NoneV, TRUE),
       WireOf(20, <<251, 20>>, NoneV, TRUE) >>

NumTagFields == Len(TagFields)

\* "top": three fields; "ended": three fields, a STRUCT_END and a field of
\* tag 5; "struct": the same inside the struct of tag 2.
Written(in) ==
    LET fs == <<TagFields[in.i], TagFields[in.j], TagFields[in.k]>>
    IN  IF in.fam = "top" THEN fs
        ELSE fs \o <<WireOf(0, <<11>>, NoneV, TRUE), WireOf(5, <<80, 9>>, IntV(9), FALSE)>>

\* The bytes of the first n of the fields.
RECURSIVE Wires(_, _)
Wires(fs, n) == IF n = 0 THEN <<>> ELSE Wires(fs, n - 1) \o fs[n].wire

TagBytes(in) ==
    LET body == Wires(Written(in), Len(Written(in)))
    IN  IF in.fam = "struct" THEN <<42>> \o body ELSE body

TagInputs ==
    { Input(fam, i, j, k) : fam \in {"top", "ended", "struct"}, i \in 1..NumTagFields,
                            j \in 1..NumTagFields, k \in 1..NumTagFields }

InitTags ==
    /\ little_endian \in BOOLEAN
    /\ inp \in TagInputs
    /\ buf = TagBytes(inp)
    /\ pos = 0
    /\ last = NoCall
    /\ pc = "start"

NextTags == Decode

SpecTags == InitTags /\ [][NextTags]_vars

(***************************************************************************)
(* SpecAny: loads with a schema and a bytes_mode, the schema Loose with an *)
(* untyped field v at top level, in the nested record inner and in the     *)
(* records of the list items.                                              *)
(***************************************************************************)
\* The bytes of v: text, a buffer that decodes as JCE ({0: 5}), bytes that
\* are neither, text that is not safe to show, nothing.
AnyBlobs == << <<104, 105>>, <<0, 5>>, <<255>>, <<1, 2>>, <<>> >>

NumAnyBlobs == Len(AnyBlobs)

\* v as a STRING1 field of tag 0.
AnyField(i) == <<JCE_STRING1, Len(AnyBlobs[i])>> \o AnyBlobs[i]

\* v = blob i, inner = {v: blob j}, items = [{v: blob k}]
AnyBytes(in) ==
    AnyField(in.i) \o <<16 + JCE_STRUCT_BEGIN>> \o AnyField(in.j) \o <<JCE_STRUCT_END>>
        \o <<32 + JCE_LIST, JCE_INT1, 1, JCE_STRUCT_BEGIN>> \o AnyField(in.k)
        \o <<JCE_STRUCT_END>>

AnyInputs ==
    { Input(mode, i, j, k) : mode \in Modes, i \in 1..NumAnyBlobs,
                             j \in 1..NumAnyBlobs, k \in 1..NumAnyBlobs }

InitAny ==
    /\ little_endian \in BOOLEAN
    /\ inp \in AnyInputs
    /\ buf = AnyBytes(inp)
    /\ pos = 0
    /\ last = NoCall
    /\ pc = "start"

\* loads(data, Loose, option, bytes_mode=mode): the schema branch.
LoadsSchema ==
    /\ pc = "start"
    /\ \E r \in {decode_to_dict_mode(buf, pos, little_endian, "Loose", inp.fam)} :
          Call("loads_schema", 0, r)
    /\ pc' = "done"

NextAny == LoadsSchema

SpecAny == InitAny /\ [][NextAny]_vars

(* Properties.                                                             *)
(***************************************************************************)
CursorOps ==
    {"read_bytes", "read_u8", "peek_u8", "skip", "read_int1", "read_int2",
     "read_int4", "read_int8", "read_float", "read_double"}

\* The bytes a call consumes when it succeeds.
Consumed(op, arg) ==
    CASE op \in {"read_bytes", "skip"} -> arg
      [] op \in {"read_u8", "read_int1"} -> 1
      [] op = "peek_u8" -> 0
      [] op = "read_int2" -> 2
      [] op \in {"read_int4", "read_float"} -> 4
      [] op \in {"read_int8", "read_double"} -> 8

\* The bytes a call needs in the buffer: peek_u8 needs the byte it shows.
Needed(op, arg) == IF op = "peek_u8" THEN 1 ELSE Consumed(op, arg)

(* C1: after any sequence of DataReader calls 0 <= position <= length; a
   successful call has advanced the position by exactly the bytes it
   consumed and a failing call has left it unchanged. *)
C1_PositionInvariant ==
    /\ 0 <= pos
    /\ pos <= Len(buf)
    /\ last.op \in CursorOps =>
          IF last.st = "ok" THEN pos = last.pre + Consumed(last.op, last.arg)
          ELSE pos = last.pre

C1_Witness ==
    /\ last.op = "read_float"
    /\ last.st = PartialData
    /\ last.pre > 0
    /\ Len(buf) = MaxBufLen

(* C2: a DataReader call that needs more bytes than remain fails with
   PartialData; read_bytes and skip of a negative length fail with
   MalformedData, also at the end of the buffer. *)
C2_ErrorKinds ==
    last.op \in CursorOps =>
        /\ (last.op \in {"read_bytes", "skip"} /\ last.arg < 0) => last.st = MalformedData
        /\ (Needed(last.op, last.arg) >= 0
              /\ last.pre + Needed(last.op, last.arg) > Len(buf)) => last.st = PartialData

C2_Witness ==
    /\ last.op = "read_bytes"
    /\ last.arg < 0
    /\ last.pre = Len(buf)
    /\ Len(buf) > 0
    /\ last.st = MalformedData

Decoding(fam) == pc = "done" /\ inp.fam = fam /\ last.op = "decode"

(* C3: decode(encode(v)) = v for every value v, in both byte orders: the
   generic decode of the encoding of Values[i] succeeds and gives the value
   back (a string as its bytes, a composite map key in its frozen form). *)
C3_RoundTrip ==
    Decoding("enc") => (last.st = "ok" /\ last.val = Decoded(Values[inp.i]))

(* C4, as amended: for every tag in 0..255 and type id in 0..13 the header
   is written as the byte tag*16+type when tag <= 14 and as 0xF0+type and
   the tag byte otherwise, and _read_head gives (tag, type) back, having
   read all of it. *)
C4_HeaderRoundTrip ==
    (pc = "done" /\ last.op = "read_head" /\ inp.i <= 255) =>
        /\ buf = IF inp.i <= 14 THEN <<inp.i * 16 + inp.j>> ELSE <<240 + inp.j, inp.i>>
        /\ last.st = "ok"
        /\ last.val = <<inp.i, inp.j>>
        /\ pos = Len(buf)

C4_Witness ==
    /\ pc = "done"
    /\ last.op = "read_head"
    /\ inp.i = 255
    /\ inp.j = JCE_SIMPLE_LIST
    /\ last.val = <<255, JCE_SIMPLE_LIST>>

(* C4, as the claim has it: for every tag in 0..300 the header is written
   and _read_head gives (tag, type) back. *)
C4_HeaderRoundTripTo300 ==
    /\ pc # "refused"
    /\ (pc = "done" /\ last.op = "read_head") =>
           (last.st = "ok" /\ last.val = <<inp.i, inp.j>>)

\* The lengths of the encodings of the first 0, 1, 2, ... fields of x: the
\* cuts after which a whole number of top-level fields remains.
Boundaries(x, le) ==
    { Len(encode_fields(SubSeq(x.v, 1, m), le)) : m \in 0..Len(x.v) }

(* C5: the decode of a proper prefix of a valid encoding fails with
   PartialData, in generic and in schema decoding.  Stated for the prefixes
   that end inside a top-level field: a prefix that ends between two fields
   is the encoding of the fields before the cut. *)
C5_PrefixPartial ==
    (pc = "done" /\ inp.fam = "cut"
         /\ inp.j \notin Boundaries(Values[inp.i], little_endian)) =>
        last.st = PartialData

\* The one child of a container of the kind, NoneV for any other value.
Child(x, kind) ==
    IF x.k # kind \/ Len(x.v) # 1 THEN NoneV
    ELSE IF kind = "list" THEN x.v[1]
    ELSE IF kind = "map" THEN (IF x.v[1][1] = IntV(7) THEN x.v[1][2] ELSE NoneV)
    ELSE IF x.v[1][1] = 0 THEN x.v[1][2] ELSE NoneV

\* What is inside levels lo..hi of x.
RECURSIVE Peel(_, _, _, _)
Peel(x, shape, lo, hi) ==
    IF lo > hi THEN x
    ELSE IF lo = hi THEN Child(x, KindAt(shape, lo))
    ELSE LET y == Peel(x, shape, lo, (lo + hi) \div 2)
         IN  IF y = NoneV THEN y ELSE Peel(y, shape, ((lo + hi) \div 2) + 1, hi)

(* C6: generic decode of a value inside more than 100 nested containers
   (structs, lists, maps, or the three in turn) fails with
   RecursionLimitExceeded; inside 100 containers or fewer it succeeds, and
   gives the containers and the value back. *)
C6_RecursionBound ==
    Decoding("nest") =>
        IF inp.j > RECURSION_LIMIT THEN last.st = RecursionLimitExceeded
        ELSE /\ last.st = "ok"
             /\ pos = Len(buf)
             /\ Peel(Child(last.val, "struct"), Shapes[inp.i], 1, inp.j) = IntV(1)

C6_Witness ==
    /\ Decoding("nest")
    /\ inp.j = RECURSION_LIMIT + 1
    /\ Shapes[inp.i] = <<"struct", "list", "map">>
    /\ last.st = RecursionLimitExceeded

(* C7: a long string whose length field is negative or over 100 MiB, and a
   list, map or simple list whose count is not an integer, is negative or
   is over 10,000,000, fail with MalformedData with the cursor just past
   the length field, whatever bytes follow it. *)
C7_CapEnforcement ==
    Decoding("cap") =>
        /\ last.st = MalformedData
        /\ pos = Len(CapBytes(inp.i, little_endian))

C7_Witness ==
    /\ Decoding("cap")
    /\ inp.j = MaxTrail
    /\ CapBytes(inp.i, little_endian)
           = <<JCE_LIST, JCE_INT4>> \o Ordered(Bytes4(MAX_CONTAINER_SIZE + 1), little_endian)
    /\ last.st = MalformedData

(* C8: generic decode of a map fails with MalformedData when the header of
   a key has a tag other than 0 or the header of a value a tag other than
   1, in whichever entry; no map is returned. *)
C8_MapEntryTags ==
    (Decoding("maptag") /\ (MapTags[inp.j] # 0 \/ MapTags[inp.k] # 1)) =>
        /\ last.st = MalformedData
        /\ last.val = <<>>

C8_Witness ==
    /\ Decoding("maptag")
    /\ inp.i = 2
    /\ MapTags[inp.j] = 0
    /\ MapTags[inp.k] = 2
    /\ last.st = MalformedData

\* The type ids _read_value has a value for.
ValueTypes ==
    {JCE_ZERO_TAG, JCE_INT1, JCE_INT2, JCE_INT4, JCE_INT8, JCE_FLOAT, JCE_DOUBLE,
     JCE_STRING1, JCE_STRING4, JCE_LIST, JCE_MAP, JCE_STRUCT_BEGIN, JCE_SIMPLE_LIST}

\* The header is given to _read_value: at top level and in a struct a
\* STRUCT_END header ends the loop instead.
ReadAsValue(in) ==
    in.j # JCE_STRUCT_END \/ ContextKinds[in.i] \notin {"top", "field"}

(* C9: where generic decode reads a value (a top-level field, a list
   element, a map key or value, a struct field, a length), a header whose
   type id is none of the thirteen value types fails with MalformedData. *)
C9_UnknownTypes ==
    (Decoding("type") /\ inp.j \notin ValueTypes /\ ReadAsValue(inp)) =>
        last.st = MalformedData

(* C10: in little-endian mode every multi-byte read gives the little-endian
   reading of the bytes at the cursor (Int2/4/8, the long-string length,
   float32, float64), whatever the float's magnitude or finiteness. *)
C10_LittleEndianDirect ==
    (little_endian /\ last.st = "ok") =>
        CASE last.op = "read_int2" -> last.val = Signed(Rev(Slice(buf, last.pre, 2)))
          [] last.op = "read_int4" -> last.val = Signed(Rev(Slice(buf, last.pre, 4)))
          [] last.op = "read_int8" -> last.val = Rev(Slice(buf, last.pre, 8))
          [] last.op = "read_float" -> last.val = Rev(Slice(buf, last.pre, 4))
          [] last.op = "read_double" -> last.val = Rev(Slice(buf, last.pre, 8))
          [] last.op = "read_string4" ->
                LET n == Signed(Rev(Slice(buf, last.pre, 4)))
                IN  last.val = BytesV(Slice(buf, last.pre + 4, n)) /\ pos = last.pre + 4 + n
          [] OTHER -> TRUE

\* A little-endian read of a non-finite float, whose other reading is finite.
C10_Witness ==
    /\ little_endian
    /\ last.op = "read_float"
    /\ last.st = "ok"
    /\ ~IsFinite32(last.val)
    /\ IsFinite32(Slice(buf, last.pre, 4))

\* The claim's cases in which the little-endian reading is preferred.
Recovers32(be, alt) ==
    \/ ~IsFinite32(be) /\ IsFinite32(alt)
    \/ AbsGt32(be, F32_1E9) /\ IsFinite32(alt) /\ AbsLe32(alt, F32_1E6)

Recovers64(be, alt) ==
    \/ ~IsFinite64(be) /\ IsFinite64(alt)
    \/ AbsGt64(be, F64_1E18) /\ IsFinite64(alt) /\ AbsLe64(alt, F64_1E12)
    \/ AbsLt64(be, F64_1EM30) /\ IsFinite64(alt) /\ AbsLe64(alt, F64_1E6)

(* C11: in big-endian mode read_float and read_double return the
   little-endian reading when the big-endian one is non-finite and the
   little-endian one finite, or when the big-endian magnitude is over 1e9
   (float32), over 1e18 or under 1e-30 (float64) and the little-endian one
   is finite and at most 1e6, 1e12, 1e6; otherwise the big-endian reading. *)
C11_FloatRecovery ==
    (~little_endian /\ last.st = "ok") =>
        CASE last.op = "read_float" ->
                LET be == Slice(buf, last.pre, 4)
                IN  last.val = IF Recovers32(be, Rev(be)) THEN Rev(be) ELSE be
          [] last.op = "read_double" ->
                LET be == Slice(buf, last.pre, 8)
                IN  last.val = IF Recovers64(be, Rev(be)) THEN Rev(be) ELSE be
          [] OTHER -> TRUE

\* A big-endian double below 1e-30 read as its little-endian reading.
C11_Witness ==
    /\ ~little_endian
    /\ last.op = "read_double"
    /\ last.st = "ok"
    /\ AbsLt64(Slice(buf, last.pre, 8), F64_1EM30)
    /\ Slice(buf, last.pre, 8) = <<1, 2, 3, 4, 5, 6, 7, 8>>
    /\ last.val = <<8, 7, 6, 5, 4, 3, 2, 1>>

Loaded == pc = "done" /\ last.op = "loads" /\ inp.fam = "blob"

\* The byte values of the loaded struct, classified: field 0, the first
\* list element, and the value of the map entry.
FieldValue == last.val.v[1][2]
ListElement == last.val.v[2][2].v[1]
MapValue == last.val.v[2][2].v[2].v[1][2]

(* C12: an empty byte value classifies to the empty string in every mode
   (raw, string and auto). *)
C12_EmptyIsText ==
    (Loaded /\ last.st = "ok" /\ Blobs[inp.i] = <<>>) => FieldValue = TextV(<<>>)

\* The bytes are valid UTF-8 that passes the safe-text predicate.
SafeUtf8(bs) ==
    LET d == utf8_decode(bs, <<>>) IN d.ok /\ is_safe_text(d.s)

(* C13: the classifier never raises: a nested reparse that fails with
   PartialData, MalformedData, RecursionLimitExceeded or for want of stack
   leaves that value as raw bytes, and the rest of the tree is classified. *)
C13_ClassifierNeverRaises ==
    Loaded =>
        /\ last.st = "ok"
        /\ (inp.mode = "auto" /\ Blobs[inp.i] # <<>> /\ ~SafeUtf8(Blobs[inp.i])) =>
              /\ decode(Blobs[inp.i], 0, little_endian).st # "ok"
                    => FieldValue = BytesV(Blobs[inp.i])
              /\ inp.stack = Frames(decode(buf, 0, little_endian).val)
                    => MapValue = BytesV(Blobs[inp.i])
        /\ (inp.mode # "raw" /\ SafeUtf8(Blobs[inp.j])) =>
              ListElement = TextV(utf8_decode(Blobs[inp.j], <<>>).s)

\* The reparse of 101 nested structs hits the recursion limit; the list
\* after it is classified all the same.
C13_Witness ==
    /\ Loaded
    /\ inp.mode = "auto"
    /\ decode(Blobs[inp.i], 0, little_endian).st = RecursionLimitExceeded
    /\ FieldValue = BytesV(Blobs[inp.i])
    /\ ListElement = TextV(<<104, 101, 108, 108, 111>>)

\* What the claim gives for a non-empty byte value.
Classified(bs, mode, le) ==
    IF mode = "raw" THEN BytesV(bs)
    ELSE IF SafeUtf8(bs) THEN TextV(utf8_decode(bs, <<>>).s)
    ELSE IF mode = "auto" /\ (bs[1] % 16) <= 13 /\ decode(bs, 0, le).st = "ok"
         THEN convert_bytes_recursive(decode(bs, 0, le).val, "auto", le, MaxStack)
    ELSE BytesV(bs)

(* C14: a non-empty byte value becomes, in auto mode, text iff it is valid
   safe UTF-8, else the classified generic decode of its bytes iff the first
   byte's low nibble is at most 13 and the decode succeeds, else it stays
   bytes; in string mode text iff valid safe UTF-8, else bytes; in raw mode
   the tree is returned as decoded.  Stated with stack to spare. *)
C14_DecisionOrder ==
    (Loaded /\ inp.stack >= Frames(decode(buf, 0, little_endian).val) + MaxStack) =>
        /\ last.st = "ok"
        /\ inp.mode = "raw" => last.val = decode(buf, 0, little_endian).val
        /\ Blobs[inp.i] # <<>> =>
              /\ FieldValue = Classified(Blobs[inp.i], inp.mode, little_endian)
              /\ MapValue = Classified(Blobs[inp.i], inp.mode, little_endian)
        /\ Blobs[inp.j] # <<>> =>
              ListElement = Classified(Blobs[inp.j], inp.mode, little_endian)

C14_Witness ==
    /\ Loaded
    /\ inp.mode = "auto"
    /\ inp.stack = Frames(decode(buf, 0, little_endian).val) + MaxStack
    /\ Blobs[inp.i] = <<0, 1, 2>>
    /\ FieldValue = BytesV(<<0, 1, 2>>)
    /\ Blobs[inp.j] = <<104, 101, 108, 108, 111>>
    /\ ListElement = TextV(<<104, 101, 108, 108, 111>>)


\* The value of the field is one value, whole, to the generic decoder.
WellFormed(in, le) ==
    LET w == WireValues(le)[in.i]
        r == read_value_at(w[2], 0, le, w[1])
    IN  r.st = "ok" /\ r.pos = Len(w[2])

(* C15: the schema decoder drops the fields it does not know.  When a      *)
(* stream has a well-formed field whose tag is not in the Root schema,     *)
(* decode_to_dict succeeds, its keys are field names of the schema, and    *)
(* its result is the result for the stream without that field.             *)
UnknownTag(in) == field_map(Fields("Root"), FieldTags[in.j]) = <<>>
FieldNames(schema) == { Fields(schema)[n].name : n \in 1..Len(Fields(schema)) }
Keys(d) == { d.v[n][1] : n \in 1..Len(d.v) }
WithoutField(in) == Before(in.k) \o After(in.k)
UnknownFieldDecoded ==
    /\ pc = "done"
    /\ last.op = "decode_to_dict"
    /\ inp.fam = "wire"
    /\ UnknownTag(inp)
    /\ WellFormed(inp, little_endian)

C15_UnknownFieldsDropped ==
    UnknownFieldDecoded =>
        /\ last.st = "ok"
        /\ pos = Len(buf)
        /\ Keys(last.val) \subseteq FieldNames("Root")
        /\ last.val = decode_to_dict(WithoutField(inp), 0, little_endian, "Root").val

C15_Witness ==
    /\ UnknownFieldDecoded
    /\ inp.k = 1
    /\ inp.i = 15
    /\ FieldTags[inp.j] = 20
    /\ last.val = DictV(<<<<"a", IntV(5)>>, <<"name", BytesV(<<104, 105>>)>>>>)

(* C16: a nested schema decoder consumes the bytes of its struct and no    *)
(* others.  For a well-formed struct in the field inner of Root, the Inner *)
(* decoder started after the STRUCT_BEGIN header stops where _read_value   *)
(* and _skip_value of that struct stop, just past its STRUCT_END; the      *)
(* decoder of Root then reads the field after it and ends at the end of    *)
(* the buffer.                                                             *)
ValueStart(in, le) ==
    Len(Before(in.k)) + Len(FieldHead(FieldTags[in.j], WireValues(le)[in.i][1]))
ValueEnd(in, le) == ValueStart(in, le) + Len(WireValues(le)[in.i][2])
NestedStructDecoded ==
    /\ pc = "done"
    /\ last.op = "decode_to_dict"
    /\ inp.fam = "wire"
    /\ FieldTags[inp.j] = 1
    /\ WireValues(little_endian)[inp.i][1] = JCE_STRUCT_BEGIN
    /\ WellFormed(inp, little_endian)

C16_NestedConsumesItsStruct ==
    NestedStructDecoded =>
        LET start == ValueStart(inp, little_endian)
            nested == decode_to_dict(buf, start, little_endian, "Inner")
        IN  /\ nested.st = "ok"
            /\ nested.pos = ValueEnd(inp, little_endian)
            /\ buf[nested.pos] = JCE_STRUCT_END
            /\ nested.pos = read_value_at(buf, start, little_endian, JCE_STRUCT_BEGIN).pos
            /\ nested.pos = skip_value_at(buf, start, little_endian, JCE_STRUCT_BEGIN).pos
            /\ last.st = "ok"
            /\ pos = Len(buf)
            /\ "inner" \in Keys(last.val)
            /\ inp.k = 1 => <<"name", BytesV(<<104, 105>>)>> = last.val.v[Len(last.val.v)]

C16_Witness ==
    /\ NestedStructDecoded
    /\ inp.k = 1
    /\ inp.i = 15
    /\ last.val = DictV(<< <<"a", IntV(5)>>,
                           <<"inner", DictV(<< <<"child", DictV(<<>>)>> >>)>>,
                           <<"name", BytesV(<<104, 105>>)>> >>)

(* C18: skip and decode agree on the length of a value.  Whenever          *)
(* _read_value of a type id succeeds at a position, _skip_value of that    *)
(* type id at that position succeeds and leaves the cursor where           *)
(* _read_value leaves it.                                                  *)
Skipped == pc = "done" /\ last.op = "skip_value"
ReadTwin == read_value_at(buf, last.pre, little_endian, last.arg)

C18_SkipInLockStep ==
    (Skipped /\ ReadTwin.st = "ok") => (last.st = "ok" /\ pos = ReadTwin.pos)

C18_Witness ==
    /\ Skipped
    /\ ReadTwin.st = "ok"
    /\ inp.fam = "wire"
    /\ inp.k = 0
    /\ inp.i = 15
    /\ little_endian
    /\ last.pre < pos
    /\ pos = Len(buf)

(* C17: the location path of a decode error.  When decode_to_dict fails    *)
(* with MalformedData or PartialData inside known fields nested in one     *)
(* another, loc lists the names of those fields from the outermost to the  *)
(* innermost, each once: its length is the number of fields.               *)
EnclosingFields(in) ==
    IF in.k = 1 THEN <<"items">> \o Pattern(<<"child">>, in.j)
    ELSE IF in.j = 0 THEN <<>>
    ELSE <<"inner">> \o Pattern(<<"child">>, in.j - 1)
FailingField(in) ==
    IF ~InKnownField(in.i) THEN <<>>
    ELSE IF in.k = 0 /\ in.j = 0 THEN <<"a">> ELSE <<"x">>
SchemaDecodeFailed ==
    /\ pc = "done"
    /\ last.op = "decode_to_dict"
    /\ inp.fam = "loc"
    /\ last.st \in {MalformedData, PartialData}

C17_LocationPath ==
    SchemaDecodeFailed =>
        /\ last.loc = EnclosingFields(inp) \o FailingField(inp)
        /\ Len(last.loc) = inp.k + inp.j + (IF InKnownField(inp.i) THEN 1 ELSE 0)

C17_Witness ==
    /\ SchemaDecodeFailed
    /\ last.st = PartialData
    /\ inp.i = 1
    /\ inp.j = 2
    /\ inp.k = 1
    /\ last.loc = <<"items", "child", "child", "x">>

\* The positions after the top-level fields of b that are whole, from p on.
RECURSIVE FieldEnds(_, _, _)
FieldEnds(b, p, le) ==
    LET h == read_head(b, p)
        r == skip_value_at(b, h.pos, le, h.val[2])
    IN  IF h.st # "ok" THEN {}
        ELSE IF r.st # "ok" THEN {}
        ELSE {r.pos} \cup FieldEnds(b, r.pos, le)

\* A stream cut at inp.j, and the stream it is cut from.
Whole == encode(Values[inp.i], little_endian)
WholeFields == { e \in FieldEnds(Whole, 0, little_endian) : e <= inp.j }
CutInsideValue ==
    /\ pc = "done"
    /\ inp.fam = "cut"
    /\ inp.j \notin FieldEnds(Whole, 0, little_endian) \cup {0}

C20_TagsUnique ==
    (pc = "built") =>
        /\ Cardinality(DOMAIN last.val[2]) = Len(last.val[1])
        /\ \A n \in 1..Len(last.val[1]) :
               last.val[2][last.val[1][n].tag] = last.val[1][n].name

\* An element of items whose header is not STRUCT_BEGIN, decoded by the
\* schema decoder of Root with no byte of the stream missing.
ElementType == WireValues(little_endian)[inp.i][1]
ElementStart == Len(Before(inp.k)) + 4
FallbackElement ==
    /\ pc = "done"
    /\ last.op = "decode_to_dict"
    /\ inp.fam = "items"
    /\ ElementType # JCE_STRUCT_BEGIN
    /\ last.st # PartialData

\* The name-keyed form of a decoded map under the Inner schema.
InnerName(key) ==
    IF key = IntV(0) THEN "x"
    ELSE IF key = IntV(1) THEN "child"
    ELSE IF key.k = "int" THEN ToString(key.v[1])
    ELSE ToString(key)
NameKeyed(g) ==
    IF g.k = "map" THEN DictV([n \in 1..Len(g.v) |-> <<InnerName(g.v[n][1]), g.v[n][2]>>])
    ELSE DictV(<<<<"_raw_value", g>>>>)

(* C21: the fallback of a list of structured records never fails the       *)
(* decode.  An element of items whose header is not STRUCT_BEGIN, all its  *)
(* bytes present, makes decode_to_dict return: the element is the          *)
(* name-keyed form of the map the generic decoder reads there, or          *)
(* {_raw_value: ...} when the generic decoder reads no map there.          *)
C21_FallbackNeverFails ==
    FallbackElement =>
        /\ last.st = "ok"
        /\ LET g == read_value_at(buf, ElementStart, little_endian, ElementType)
           IN  g.st = "ok" =>
                   \E n \in 1..Len(last.val.v) :
                       last.val.v[n] = <<"items", ListV(<<NameKeyed(g.val)>>)>>

\* The part of C21 that holds: an element the generic decoder reads.
C21_FallbackOfDecodedElement ==
    (FallbackElement
        /\ read_value_at(buf, ElementStart, little_endian, ElementType).st = "ok") =>
        /\ last.st = "ok"
        /\ \E n \in 1..Len(last.val.v) :
               last.val.v[n] =
                   <<"items",
                     ListV(<<NameKeyed(read_value_at(buf, ElementStart, little_endian,
                                                     ElementType).val)>>)>>

\* What loads gives for a written value: a string as text.
AsLoaded(x) == IF x.k = "str" THEN TextV(x.v) ELSE x
LoadedPairs(in) == [n \in 1..2 |-> <<AssocPairs(in)[n][1], AsLoaded(AssocPairs(in)[n][2])>>]
LoadedEntries(in) ==
    [n \in 1..2 |-> <<IntV(AssocPairs(in)[n][1]), AsLoaded(AssocPairs(in)[n][2])>>]
ReadBack == pc = "done" /\ inp.fam = "assoc" /\ last.op = "loads"

(* C22: a struct-shorthand association and a plain association are two    *)
(* wire shapes.  The pairs written as struct-shorthand are bare fields,    *)
(* one per tag, and are read back as the struct keyed by tag; written as a *)
(* plain association they are one field of tag 0 and type MAP, a length,   *)
(* and for each entry a key of tag 0 and a value of tag 1: more bytes,     *)
(* read back as {0: map} with the map's keys and values equal to the       *)
(* pairs', which is not the struct.                                        *)
C22_StructVersusMap ==
    ReadBack =>
        LET s == dumps_struct(inp, little_endian)
            m == dumps_map(inp, little_endian)
            p == AssocPairs(inp)
        IN  /\ Len(m) > Len(s)
            /\ s = encode_value(p[1][1], p[1][2], little_endian)
                       \o encode_value(p[2][1], p[2][2], little_endian)
            /\ m = <<JCE_MAP, JCE_INT1, 2>>
                       \o encode_value(0, IntV(p[1][1]), little_endian)
                       \o encode_value(1, p[1][2], little_endian)
                       \o encode_value(0, IntV(p[2][1]), little_endian)
                       \o encode_value(1, p[2][2], little_endian)
            /\ last.st = "ok"
            /\ pos = Len(buf)
            /\ inp.k = 0 => last.val = StructV(LoadedPairs(inp))
            /\ inp.k = 1 => last.val = StructV(<< <<0, MapV(LoadedEntries(inp))>> >>)
            /\ inp.k = 1 => last.val # StructV(LoadedPairs(inp))

C22_Witness ==
    /\ ReadBack
    /\ inp.k = 1
    /\ AssocPairs(inp) = << <<0, IntV(123)>>, <<1, StrV(<<104, 105>>)>> >>
    /\ Len(buf) = 12
    /\ Len(dumps_struct(inp, little_endian)) = 6
    /\ last.val = StructV(<< <<0, MapV(<< <<IntV(0), IntV(123)>>,
                                          <<IntV(1), TextV(<<104, 105>>)>> >>)>> >>)

\* The byte strings the classifier may parse again: those that are a
\* value of a decoded dict or an item of a decoded list.
RECURSIVE BytesIn(_)
BytesIn(x) ==
    CASE x.k = "bytes" -> {x.v}
      [] x.k = "list" -> UNION { BytesIn(x.v[n]) : n \in 1..Len(x.v) }
      [] x.k \in {"map", "struct"} -> UNION { BytesIn(x.v[n][2]) : n \in 1..Len(x.v) }
      [] OTHER -> {}

\* A decode in progress makes progress: the loop that last tested its
\* condition is at a later position than when it tested it before, the
\* cursor is inside the buffer, and the steps taken are at most four for
\* every byte of the buffer and two.
Progressing ==
    pc = "running" =>
        /\ last.val.from < last.val.at
        /\ last.val.at <= pos
        /\ pos <= Len(buf)
        /\ last.arg <= 4 * Len(buf) + 2
        /\ Len(last.val.c.stack) <= last.arg + 1

\* What the classifier parses again is shorter than what was decoded.
Shrinking ==
    pc = "returned" => \A bs \in BytesIn(last.val) : Len(bs) < Len(buf)

Ended ==
    /\ pc = "done"
    /\ last.st \in {"ok", PartialData, MalformedData, RecursionLimitExceeded}

(* C23: decoding terminates.  Generic, schema and node decode of every     *)
(* buffer, and the classifier on what generic decode returns, end with a   *)
(* result or an error; until then the cursor never moves back, every test  *)
(* of a loop's condition in a decode or skip path finds the cursor past    *)
(* where the loop's previous test found it, and the number of steps is     *)
(* bounded by the length of the buffer.                                    *)
C23_Termination ==
    /\ []Progressing
    /\ []Shrinking
    /\ [][pos' >= pos]_vars
    /\ [](pc = "done" => Ended)
    /\ <>Ended

\* The loop of a nested container about to test its condition again: its
\* last iteration, and the one before, moved the reader on.
C23_Witness ==
    /\ pc = "running"
    /\ last.val.c.mode = "run"
    /\ Len(last.val.c.stack) >= 2
    /\ AtLoopHead(Top(last.val.c))
    /\ last.val.marks[Len(last.val.c.stack)] >= 0
    /\ last.val.marks[Len(last.val.c.stack)] < pos
    /\ last.val.from >= 0
    /\ last.arg >= 4


(***************************************************************************)
(* Composite map keys (SpecFreeze).                                        *)
(***************************************************************************)
\* a == b of two decoded values: lists item by item, dicts by their keys
\* whatever the order they were filled in.
RECURSIVE Equal(_, _)
Equal(a, b) ==
    IF a.k # b.k THEN FALSE
    ELSE IF a.k = "list"
         THEN /\ Len(a.v) = Len(b.v)
              /\ \A n \in 1..Len(a.v) : Equal(a.v[n], b.v[n])
    ELSE IF a.k = "struct"
         THEN /\ Len(a.v) = Len(b.v)
              /\ \A n \in 1..Len(a.v) : \E m \in 1..Len(b.v) :
                    a.v[n][1] = b.v[m][1] /\ Equal(a.v[n][2], b.v[m][2])
    ELSE a.v = b.v

\* What _freeze_key makes of a key when nothing is cached.
Canonical(x) == freeze_cached(x, [n \in 1..Objects(x) |-> n], NoCache).val

\* The keys read so far: the decoded key, the key used for it, its ids.
KeysRead == IF last.op = "read_map" THEN last.val.keys ELSE <<>>

\* The entries of the dict _read_map is filling.
EntriesRead == IF last.op = "read_map" THEN last.val.result ELSE <<>>

\* The frozen form itself is canonical: two keys have the same one exactly
\* when they are equal, and the first key of a decode is given it.
FreezeCanonical ==
    /\ \A a, b \in 1..Len(KeysRead) :
          Equal(KeysRead[a][1], KeysRead[b][1])
             <=> SameKey(Canonical(KeysRead[a][1]), Canonical(KeysRead[b][1]))
    /\ KeysRead # <<>> => SameKey(KeysRead[1][2], Canonical(KeysRead[1][1]))

\* C24: any two structurally equal composite keys of a map, whatever the
\* wire order of a struct's fields, are frozen to keys that compare equal
\* and so address one entry.
C24_EqualKeysFreezeEqual ==
    \A a, b \in 1..Len(KeysRead) :
       Equal(KeysRead[a][1], KeysRead[b][1]) => SameKey(KeysRead[a][2], KeysRead[b][2])

\* C26: the key used for a composite key is the canonical form of its own
\* contents, also when identities are reused, so a map of n pairwise
\* different composite keys decodes to n entries.
C26_FreezeCacheSound ==
    /\ \A a \in 1..Len(KeysRead) : SameKey(KeysRead[a][2], Canonical(KeysRead[a][1]))
    /\ (\A a, b \in 1..Len(KeysRead) : a # b => ~Equal(KeysRead[a][1], KeysRead[b][1]))
          => Len(EntriesRead) = Len(KeysRead)


(***************************************************************************)
(* Tag-keyed structs (SpecTags).                                           *)
(***************************************************************************)
\* How many of the written fields come before the first STRUCT_END.
Before_End(fs) ==
    IF \E n \in 1..Len(fs) : fs[n].end
    THEN (CHOOSE n \in 1..Len(fs) : fs[n].end /\ \A m \in 1..(n - 1) : ~fs[m].end) - 1
    ELSE Len(fs)

\* The fields a struct is made of: those before its STRUCT_END.
Seen(fs) == SubSeq(fs, 1, Before_End(fs))

FirstWith(fs, tag) == CHOOSE n \in 1..Len(fs) : fs[n].tag = tag /\ \A m \in 1..(n - 1) : fs[m].tag # tag
LastWith(fs, tag) == CHOOSE n \in 1..Len(fs) : fs[n].tag = tag /\ \A m \in (n + 1)..Len(fs) : fs[m].tag # tag

\* entries: one per tag of fs, the value of the last field of the tag, in
\* the order the tags first appear.
TagKeyed(entries, fs) ==
    /\ { entries[n][1] : n \in 1..Len(entries) } = { fs[n].tag : n \in 1..Len(fs) }
    /\ \A n, m \in 1..Len(entries) : entries[n][1] = entries[m][1] => n = m
    /\ \A n \in 1..Len(entries) : entries[n][2] = fs[LastWith(fs, entries[n][1])].val
    /\ \A n, m \in 1..Len(entries) :
          n < m => FirstWith(fs, entries[n][1]) < FirstWith(fs, entries[m][1])

\* Where a top-level decode of the written fields stops: after the first
\* STRUCT_END header, or at the end.
StopsAt(fs) ==
    LET n == Before_End(fs)
        upto == IF n < Len(fs) THEN n + 1 ELSE n
    IN  Len(Wires(fs, upto))

TagsDecoded == pc = "done" /\ last.op = "decode" /\ inp.fam \in {"top", "ended", "struct"}

\* The struct of tag 2 in the result of a decode.
StructRead == last.val.v[CHOOSE n \in 1..Len(last.val.v) : last.val.v[n][1] = 2][2]

\* C25: a decoded struct, and the top-level result, has one entry per tag
\* seen before the STRUCT_END, holding the value of the last field of that
\* tag, in the order the tags first appeared; a STRUCT_END header at top
\* level ends the decode without an error, the bytes after it unread.
C25_TagKeyed ==
    TagsDecoded =>
       /\ inp.fam \in {"top", "ended"} =>
             /\ last.st = "ok"
             /\ last.val.k = "struct"
             /\ TagKeyed(last.val.v, Seen(Written(inp)))
             /\ pos = StopsAt(Written(inp))
       /\ (inp.fam = "struct" /\ last.st = "ok") =>
             /\ \E n \in 1..Len(last.val.v) : last.val.v[n][1] = 2
             /\ StructRead.k = "struct"
             /\ TagKeyed(StructRead.v, Seen(Written(inp)))

\* A tag written twice with a smaller tag in between, then a STRUCT_END
\* at top level with a field after it.
C25_Witness ==
    /\ TagsDecoded
    /\ inp.fam = "ended"
    /\ last.st = "ok"
    /\ Before_End(Written(inp)) = 3
    /\ Written(inp)[1].tag = Written(inp)[3].tag
    /\ Written(inp)[1].val # Written(inp)[3].val
    /\ Written(inp)[2].tag < Written(inp)[1].tag
    /\ Len(last.val.v) = 2
    /\ pos < Len(buf)


(***************************************************************************)
(* The recursion budget (SpecSteps).                                       *)
(***************************************************************************)
\* The readers that take one level of the budget while they run.
BudgetedReaders == {"read_list", "read_map", "read_struct", "read_list_of_structs"}

\* The decoder object frame n of the stack runs in: 1 is the outermost,
\* each inner SchemaDecoder is one more.
DecoderOf(stack, n) ==
    1 + Cardinality({ m \in 1..n : stack[m].fn = "decode_to_dict" /\ stack[m].inner })

\* How deep the readers of decoder d are nested.
NestingDepth(stack, d) ==
    Cardinality({ n \in 1..Len(stack) :
                     stack[n].fn \in BudgetedReaders /\ DecoderOf(stack, n) = d })

\* C27: at any moment of a decode, running or unwinding an error, the
\* recursion counter of every decoder is 100 less the nesting depth of its
\* list, map, struct and list-of-structs readers; so every reader leaves it
\* as it found it, and it is 100 when the outermost call returns or raises.
C27_BudgetRestored ==
    pc = "running" =>
       LET c == last.val.c
           budgeted == { n \in 1..Len(c.stack) : c.stack[n].fn \in BudgetedReaders }
       IN  /\ Len(c.lims) = DecoderOf(c.stack, Len(c.stack))
           /\ \A n \in budgeted : c.lims[DecoderOf(c.stack, n)] < RECURSION_LIMIT
           /\ \A d \in 1..Len(c.lims) :
                 /\ c.lims[d] <= RECURSION_LIMIT
                 /\ c.lims[d] < RECURSION_LIMIT =>
                       c.lims[d] = RECURSION_LIMIT - NestingDepth(c.stack, d)
           /\ c.stack = <<>> => c.lims = <<RECURSION_LIMIT>>

\* The outermost call is about to raise, or to return, after its budget
\* was used up or an inner decoder's was in use.
C27_Witness ==
    /\ pc = "running"
    /\ last.val.c.stack = <<>>
    /\ last.val.c.lims = <<RECURSION_LIMIT>>
    /\ last.arg > RECURSION_LIMIT
    /\ last.val.c.mode = "raise"
    /\ last.val.c.err = RecursionLimitExceeded


(***************************************************************************)
(* The depth limit off the generic read path (SpecSteps).                  *)
(***************************************************************************)
\* The input is a value inside more containers than the limit allows.
TooDeep == inp.fam \in {"nest", "deep"} /\ inp.j > RECURSION_LIMIT

\* C28: a value nested more than 100 containers deep fails with
\* RecursionLimitExceeded on every path: generic decode, the skip of an
\* unknown tag, nested schema decoders, node decode.
C28_DepthLimitEverywhere ==
    (pc = "done" /\ TooDeep /\ last.op \in {"decode", "decode_to_dict", "node_decode"})
       => last.st = RecursionLimitExceeded

\* What holds: the generic read path stops at the limit.
DepthLimitOnRead ==
    (pc = "done" /\ TooDeep /\ (last.op = "decode" \/ inp.fam = "nest")
        /\ last.op \in {"decode", "decode_to_dict"})
       => last.st = RecursionLimitExceeded


(***************************************************************************)
(* Skip against read (SpecField).                                          *)
(***************************************************************************)
\* _skip_value has returned or raised; what _read_value does from the same
\* position with the same type id.
ValueSkipped == pc = "done" /\ last.op = "skip_value"
ReadThere == read_value_at(buf, last.pre, little_endian, last.arg)

\* C29: whenever _read_value fails with MalformedData on a value, so does
\* _skip_value on the same bytes.
C29_SkipRejectsWhatReadRejects ==
    ValueSkipped => (ReadThere.st = MalformedData => last.st = MalformedData)

\* What holds: a value that _read_value reads is skipped to the same
\* position, and a length over its cap is rejected by both.
SkipFollowsRead ==
    ValueSkipped => (ReadThere.st = "ok" => last.st = "ok" /\ pos = ReadThere.pos)


(***************************************************************************)
(* bytes_mode in a schema decode (SpecAny).                                *)
(***************************************************************************)
\* d[name] of a decoded dict.
Named(d, name) == d.v[CHOOSE n \in 1..Len(d.v) : d.v[n][1] = name][2]

SchemaLoaded == pc = "done" /\ last.op = "loads_schema" /\ last.st = "ok"

\* The three values of v in the result: top level, inner, items[0].
TopV == Named(last.val, "v")
InnerV == Named(Named(last.val, "inner"), "v")
ItemV == Named(Named(last.val, "items").v[1], "v")

\* A byte value reparsed as a nested structure.
Reparsed(x) == x.k \in {"struct", "map", "list"}

\* The bytes of blob i as they were written.
Untouched(x, i) == x.k = "bytes" /\ x.v = AnyBlobs[i]

\* What a mode makes of the bytes of blob i.
Converted(i, mode) ==
    convert_bytes_recursive(BytesV(AnyBlobs[i]), mode, little_endian, RECURSION_LIMIT)

\* C30: the bytes_mode of a schema decode governs every "any" field of the
\* call, those of nested records and of the records of a list included:
\* raw leaves every byte value as it is, string reparses none.
C30_ModeGovernsEveryAnyField ==
    SchemaLoaded =>
       /\ inp.fam = "raw" =>
             /\ Untouched(TopV, inp.i)
             /\ Untouched(InnerV, inp.j)
             /\ Untouched(ItemV, inp.k)
       /\ inp.fam = "string" =>
             ~Reparsed(TopV) /\ ~Reparsed(InnerV) /\ ~Reparsed(ItemV)

\* What holds: the mode governs the "any" fields of the outermost record
\* only; those of the inner decoders are converted in auto mode.
ModeGovernsOutermost ==
    /\ pc = "done" => last.st = "ok"
    /\ SchemaLoaded =>
          /\ TopV = Converted(inp.i, inp.fam)
          /\ InnerV = Converted(inp.j, "auto")
          /\ ItemV = Converted(inp.k, "auto")
=========================================================================
